---- MODULE Spec2Model ----
(***************************************************************************)
(* Model of mt_remote: the Promise notifier (promise.py), the event        *)
(* dispatcher BaseEventSource and the backtest engine CsvEventSource       *)
(* (source.py).  One CsvEventSource instance is modelled together with     *)
(* the promises it hands out.  Every public call is one action; the calls  *)
(* it makes (handlers, settlement, balance events) are part of it and are  *)
(* computed by operators on a state record, with a raised exception        *)
(* cutting the rest of the call short as it does in Python.                *)
(***************************************************************************)
EXTENDS Integers, Sequences, FiniteSets, TLC

VARIABLES
    tick_handlers,      \* BaseEventSource._tick_handlers
    bar_handlers,       \* BaseEventSource._bar_handlers
    balance_handlers,   \* BaseEventSource._balance_handlers
    order,              \* BaseEventSource._order
    order_promise,      \* BaseEventSource._order_promise (promise id)
    current_price,      \* BaseEventSource._current_price
    price,              \* CsvEventSource._price
    balance,            \* CsvEventSource.__balance
    curr_order,         \* CsvEventSource._curr_order
    curr_order_price,   \* CsvEventSource._curr_order_price
    promises,           \* every Promise created so far, by id
    calls,              \* per caller handler: invocations by a promise so far
    trace,              \* handler invocations of the last call, in order
    fills,              \* fulfillment steps of the last call, in order
    last,               \* the last call: operation, promise, exception
    made                \* the last call when it builds or computes a value:
                        \* what it was given and what came of it

vars == <<tick_handlers, bar_handlers, balance_handlers, order, order_promise,
          current_price, price, balance, curr_order, curr_order_price,
          promises, calls, trace, fills, last, made>>

----------------------------------------------------------------------------
(* Bounds *)

\* orders submitted to the engine
MaxPromises == 2
\* handlers a strategy registers on the notifiers of the engine
MaxListeners == 1
\* handlers registered on a notifier taken alone, by the holder or by a
\* handler that is running
MaxHandlers == 2
\* notifiers taken alone
MaxNotifiers == 1
\* handlers a strategy subscribes to the ticks and bars of the feed
MaxSubscribers == 1
\* entries of one subscriber list, the engine's own handler included
MaxRegistrations == 3
\* rows of the file that is replayed
MaxRows == 2
\* the digits of a period text
MaxDigits == 2
\* the orders of one replay with a strategy that trades
MaxTrades == 3

----------------------------------------------------------------------------
(* Values *)

\* Python None for the optional numbers (prices, volume, promise reference)
None == -1

\* OrderSignal
OrderSignal == {"buy", "sell", "out"}

\* Order(signal, volume): out has no volume, buy and sell have one
Order(signal, volume) == [signal |-> signal, volume |-> volume]

\* None where an Order is expected (BaseEventSource._order, _curr_order)
NoneOrder == [signal |-> "None", volume |-> None]

Prices == {1, 2}
Volumes == {1, 2}
InitBalances == {3}
Balances == {1}
Payloads == {<<>>, <<"test">>}

Orders == {Order("out", None)} \cup
          {Order(sg, v) : sg \in {"buy", "sell"}, v \in Volumes}

Tick(p) == [price |-> p]
Bar(o, c) == [open |-> o, close |-> c]

\* the bars of the feed: any of the open and the close may be missing
Bars == {Bar(o, c) : o \in Prices \cup {None}, c \in Prices \cup {None}}

NoExc == "none"

\* the handler update_order registers on every order promise
ClearOrderHandler == [hid |-> 0, kind |-> "clear_order"]

\* what a handler of a caller does when it is invoked: "log" only takes
\* note of the call; "then", "catch", "always" register one more "log"
\* handler on the promise that is invoking them
PromiseHandlerKinds == {"log", "then", "catch", "always"}

\* a handler that reacts by submitting an order with update_order, and the
\* order it submits
SubmitKinds == {"submit_buy", "submit_out"}
SubmitOrder(kind) ==
    IF kind = "submit_buy" THEN Order("buy", 2) ELSE Order("out", None)

\* the orders of a strategy that submits the same orders from its handlers
\* and from outside them
SubmittedOrders == {SubmitOrder(k) : k \in SubmitKinds}

----------------------------------------------------------------------------
(* The state as one record, so that the code's calls compose *)

State ==
    [tick_handlers |-> tick_handlers, bar_handlers |-> bar_handlers,
     balance_handlers |-> balance_handlers, order |-> order,
     order_promise |-> order_promise, current_price |-> current_price,
     price |-> price, balance |-> balance, curr_order |-> curr_order,
     curr_order_price |-> curr_order_price, promises |-> promises,
     calls |-> calls, trace |-> <<>>, fills |-> <<>>, exc |-> NoExc,
     dispatches |-> <<>>]

Raise(s, e) == [s EXCEPT !.exc = e]

\* BaseEventSource.order_in_progress
order_in_progress(s) == s.order_promise # None

\* Promise.__init__
NewPromise ==
    [done_success |-> "None", done_args |-> <<>>,
     then_handlers |-> <<>>, catch_handlers |-> <<>>, always_handlers |-> <<>>]

\* a new handler of the caller, numbered in the order of creation
NewHandler(s, kind) == [hid |-> Len(s.calls) + 1, kind |-> kind]
WithHandler(s) == [s EXCEPT !.calls = Append(@, 0)]

\* a handler is entered: note what it was given and saw (the account, for
\* a handler of the strategy), and count the call when it is a handler of
\* a promise
Enter(s, h, list, p, args) ==
    [s EXCEPT
        !.calls = IF h.hid = 0 \/ p = None THEN @
                  ELSE [@ EXCEPT ![h.hid] = @ + 1],
        !.trace = Append(@, [hid |-> h.hid, kind |-> h.kind, list |-> list,
                             promise |-> p, args |-> args,
                             in_progress |-> order_in_progress(s),
                             current_price |-> s.current_price,
                             done |-> IF p = None THEN "None"
                                      ELSE s.promises[p].done_success,
                             balance |->
                                IF h.hid = 0 THEN None ELSE s.balance,
                             curr_order |->
                                IF h.hid = 0 THEN NoneOrder ELSE s.curr_order,
                             curr_order_price |->
                                IF h.hid = 0 THEN None
                                ELSE s.curr_order_price])]

RECURSIVE CallPromiseHandler(_, _, _, _, _)
RECURSIVE RunPromiseHandlers(_, _, _, _)
RECURSIVE update_order(_, _)

\* Promise.then without the call for a notifier that is already accepted
PromiseThenAppendOnly(s, p, h) ==
    [s EXCEPT !.promises[p].then_handlers = Append(@, h)]

\* Promise.then
PromiseThen(s, p, h) ==
    LET s1 == [s EXCEPT !.promises[p].then_handlers = Append(@, h)]
    IN  IF s1.promises[p].done_success = "True"
        THEN CallPromiseHandler(s1, h, "then", p, s1.promises[p].done_args)
        ELSE s1

\* Promise.catch
PromiseCatch(s, p, h) ==
    LET s1 == [s EXCEPT !.promises[p].catch_handlers = Append(@, h)]
    IN  IF s1.promises[p].done_success = "False"
        THEN CallPromiseHandler(s1, h, "catch", p, s1.promises[p].done_args)
        ELSE s1

\* Promise.always
PromiseAlways(s, p, h) ==
    LET s1 == [s EXCEPT !.promises[p].always_handlers = Append(@, h)]
    IN  IF s1.promises[p].done_success # "None"
        THEN CallPromiseHandler(s1, h, "always", p, s1.promises[p].done_args)
        ELSE s1

\* clear_order forgetting the promise
clear_order_only(s) == [s EXCEPT !.order = NoneOrder]

\* clear_order, the closure inside BaseEventSource.update_order
clear_order(s) == [s EXCEPT !.order = NoneOrder, !.order_promise = None]

\* func(*args, **kwargs) for a handler of a promise
CallPromiseHandler(s, h, list, p, args) ==
    LET s1 == Enter(s, h, list, p, args)
    IN  CASE h.kind = "clear_order" -> clear_order(s1)
          [] h.kind = "then" ->
                PromiseThen(WithHandler(s1), p, NewHandler(s1, "log"))
          [] h.kind = "catch" ->
                PromiseCatch(WithHandler(s1), p, NewHandler(s1, "log"))
          [] h.kind = "always" ->
                PromiseAlways(WithHandler(s1), p, NewHandler(s1, "log"))
          [] h.kind \in SubmitKinds -> update_order(s1, SubmitOrder(h.kind))
          [] OTHER -> s1

\* the handler lists of a settled promise as they are now
LiveHandlers(s, p) ==
    (IF s.promises[p].done_success = "True"
     THEN [i \in 1..Len(s.promises[p].then_handlers) |->
                [h |-> s.promises[p].then_handlers[i], list |-> "then"]]
     ELSE [i \in 1..Len(s.promises[p].catch_handlers) |->
                [h |-> s.promises[p].catch_handlers[i], list |-> "catch"]])
    \o [i \in 1..Len(s.promises[p].always_handlers) |->
                [h |-> s.promises[p].always_handlers[i], list |-> "always"]]

RECURSIVE RunLiveHandlers(_, _, _, _)

RunLiveHandlers(s, i, p, args) ==
    IF i > Len(LiveHandlers(s, p)) \/ s.exc # NoExc THEN s
    ELSE RunLiveHandlers(
            CallPromiseHandler(s, LiveHandlers(s, p)[i].h,
                               LiveHandlers(s, p)[i].list, p, args),
            i + 1, p, args)

\* the settlement loop over the lists themselves instead of their
\* concatenation: it also reaches what is registered while it runs
RunPromiseHandlersLive(s, hs, p, args) == RunLiveHandlers(s, 1, p, args)

\* for func in <list>: func(*args, **kwargs), over the list as it was built
RunPromiseHandlers(s, hs, p, args) ==
    IF hs = <<>> \/ s.exc # NoExc THEN s
    ELSE RunPromiseHandlers(
            CallPromiseHandler(s, Head(hs).h, Head(hs).list, p, args),
            Tail(hs), p, args)

Tagged(hs, list) == [i \in 1..Len(hs) |-> [h |-> hs[i], list |-> list]]

\* Promise.accept without its assertion
PromiseAcceptAgain(s, p, args) ==
    LET s1 == [s EXCEPT !.promises[p].done_success = "True",
                        !.promises[p].done_args = args]
    IN  RunPromiseHandlers(s1,
            Tagged(s1.promises[p].then_handlers, "then") \o
            Tagged(s1.promises[p].always_handlers, "always"), p, args)

\* Promise.accept going through the always handlers before the then handlers
PromiseAcceptAlwaysFirst(s, p, args) ==
    IF s.promises[p].done_success # "None" THEN Raise(s, "AssertionError")
    ELSE LET s1 == [s EXCEPT !.promises[p].done_success = "True",
                             !.promises[p].done_args = args]
         IN  RunPromiseHandlers(s1,
                Tagged(s1.promises[p].always_handlers, "always") \o
                Tagged(s1.promises[p].then_handlers, "then"), p, args)

\* Promise.accept
PromiseAccept(s, p, args) ==
    IF s.promises[p].done_success # "None" THEN Raise(s, "AssertionError")
    ELSE LET s1 == [s EXCEPT !.promises[p].done_success = "True",
                             !.promises[p].done_args = args]
         IN  RunPromiseHandlers(s1,
                Tagged(s1.promises[p].then_handlers, "then") \o
                Tagged(s1.promises[p].always_handlers, "always"), p, args)

\* reject calling the always handlers before the catch handlers
PromiseRejectAlwaysFirst(s, p, args) ==
    IF s.promises[p].done_success # "None" THEN Raise(s, "AssertionError")
    ELSE LET s1 == [s EXCEPT !.promises[p].done_success = "False",
                             !.promises[p].done_args = args]
         IN  RunPromiseHandlers(s1,
                Tagged(s1.promises[p].always_handlers, "always") \o
                Tagged(s1.promises[p].catch_handlers, "catch"), p, args)

\* Promise.reject
PromiseReject(s, p, args) ==
    IF s.promises[p].done_success # "None" THEN Raise(s, "AssertionError")
    ELSE LET s1 == [s EXCEPT !.promises[p].done_success = "False",
                             !.promises[p].done_args = args]
         IN  RunPromiseHandlers(s1,
                Tagged(s1.promises[p].catch_handlers, "catch") \o
                Tagged(s1.promises[p].always_handlers, "always"), p, args)

\* update_order without the check for an order in progress
update_order_unguarded(s, o) ==
    LET p  == Len(s.promises) + 1
        s1 == [s EXCEPT !.promises = Append(@, NewPromise)]
        s2 == PromiseAlways(s1, p, ClearOrderHandler)
    IN  [s2 EXCEPT !.order = o, !.order_promise = p]

\* BaseEventSource.update_order; the promise returned is the newest one
update_order(s, o) ==
    IF order_in_progress(s) THEN Raise(s, "OrderQueueError")
    ELSE LET p  == Len(s.promises) + 1
             s1 == [s EXCEPT !.promises = Append(@, NewPromise)]
             s2 == PromiseAlways(s1, p, ClearOrderHandler)
         IN  [s2 EXCEPT !.order = o, !.order_promise = p]

----------------------------------------------------------------------------
(* Settlement arithmetic *)

\* order_gain treating every position as a buy
order_gain_long_only(signal, in_price, out_price) == out_price - in_price

\* order_gain, for the signals buy and sell of an open position
order_gain(signal, in_price, out_price) ==
    IF signal = "buy" THEN out_price - in_price ELSE in_price - out_price

\* order_single
order_single(signal, in_price, out_price) ==
    in_price + order_gain(signal, in_price, out_price)

\* float(value) in the _balance setter: the balances here are whole numbers,
\* which float() keeps as they are
float(value) == value

\* CsvEventSource.balance_total, for a state where it does not raise
balance_total(s) ==
    IF s.curr_order = NoneOrder THEN s.balance
    ELSE s.balance + s.curr_order.volume *
            order_single(s.curr_order.signal, s.curr_order_price, s.price)

\* balance_total raises TypeError when a position is open and _price is None
\* (None - float in order_gain)
balance_total_raises(s) == s.curr_order # NoneOrder /\ s.price = None

\* the assertion of order_gain: the signal is neither buy nor sell
order_gain_raises(signal) == signal \notin {"buy", "sell"}

----------------------------------------------------------------------------
(* The value records: Order, Bar, Tick *)

\* what a constructor or a function call comes to: the exception it raises
\* with the values its message carries, or the value it returns
Raised(e, msg) == [exc |-> e, msg |-> msg, value |-> <<>>]
Returned(v) == [exc |-> NoExc, msg |-> <<>>, value |-> v]

\* no such call was made
NoCall == [exc |-> NoExc, msg |-> <<>>, value |-> <<>>, call |-> "none",
           given |-> <<>>]

\* the signal argument of Order(): one of OrderSignal, or None
GivenSignals == OrderSignal \cup {"None"}
\* the volume argument of Order(): a number, or None
GivenVolumes == {None, 0, 1}

\* an Order object: the attributes _signal and volume
OrderObject(sg, v) == [volume |-> v, signal_attr |-> sg]

\* Order.signal, the property
OrderSignalOf(o) == IF o.signal_attr = "None" THEN "out" ELSE o.signal_attr

\* Order.__init__ taking the signal as given, so that no signal is not out
OrderInitNoDefault(sg, v) ==
    IF sg = "out"
    THEN IF v # None
         THEN Raised("ValueError", <<"Orders of type 'out' must not have volume">>)
         ELSE Returned(OrderObject(sg, v))
    ELSE IF v = None
         THEN Raised("ValueError", <<"Orders other than 'out' must have volume">>)
         ELSE Returned(OrderObject(sg, v))

\* Order.__init__
OrderInit(sg, v) ==
    IF OrderSignalOf(OrderObject(sg, v)) = "out"
    THEN IF v # None
         THEN Raised("ValueError", <<"Orders of type 'out' must not have volume">>)
         ELSE Returned(OrderObject(sg, v))
    ELSE IF v = None
         THEN Raised("ValueError", <<"Orders other than 'out' must have volume">>)
         ELSE Returned(OrderObject(sg, v))

\* Order.signal, the setter
OrderSetSignal(o, sg) == Returned([o EXCEPT !.signal_attr = sg])

\* order.volume = v, a plain attribute
OrderSetVolume(o, v) == Returned([o EXCEPT !.volume = v])

\* the text of a field as a CSV file or a form gives it
Texts == {"", "1", "2", "nan", "test"}

\* an argument of Bar() or Tick(): None, or a text
Absent == <<>>
Given(text) == <<text>>
Fields == {Absent} \cup {Given(text) : text \in Texts}

\* float('nan'): not a number
NaN == -2

\* float(text) raises ValueError for a text that is not a number
float_raises(text) == text \notin {"1", "2", "nan"}

\* float(text)
float_of(text) ==
    CASE text = "1" -> 1
      [] text = "2" -> 2
      [] text = "nan" -> NaN

\* a < b on floats: false when either is not a number
float_lt(a, b) == a # NaN /\ b # NaN /\ a < b

\* a >= b on floats: false when either is not a number
float_ge(a, b) == a # NaN /\ b # NaN /\ a >= b

\* `x is None or x is ''` in Bar.__init__
bar_blank(f) == f = Absent \/ f = Given("")

\* `None if x is None or x is '' else float(x)` in Bar.__init__
bar_field_raises(f) == ~bar_blank(f) /\ float_raises(f[1])
bar_field(f) == IF bar_blank(f) THEN None ELSE float_of(f[1])

\* a Bar object: the attributes open, high, low, close
BarObject(o, h, l, c) == [open |-> o, close |-> c, high |-> h, low |-> l]

\* Bar.__init__, for the prices (volume, period and start_ts left out)
BarInit(open_, high_, low_, close_) ==
    IF \E f \in {open_, high_, low_, close_} : bar_field_raises(f)
    THEN Raised("ValueError", <<"could not convert string to float">>)
    ELSE IF /\ bar_field(high_) # None
            /\ bar_field(low_) # None
            /\ float_lt(bar_field(high_), bar_field(low_))
    THEN Raised("ValueError", <<"High", high_[1], "is less than low", low_[1]>>)
    ELSE Returned(BarObject(bar_field(open_), bar_field(high_),
                            bar_field(low_), bar_field(close_)))

\* Tick.__init__: `None if price is None else float(price)`
TickInit(price_) ==
    IF price_ = Absent THEN Returned(Tick(None))
    ELSE IF float_raises(price_[1])
    THEN Raised("ValueError", <<"could not convert string to float">>)
    ELSE Returned(Tick(float_of(price_[1])))

\* a str is the sequence of its characters

\* the members of BarPeriod, in the order of the class
BarPeriod ==
    <<"seconds", "minutes", "hours", "days", "weeks", "months", "years">>

\* the values Python code passes as a period: None, a str, an int, a
\* member of BarPeriod, a tuple or list of such values
PyNone == <<"None">>
PyStr(chars) == <<"str", chars>>
PyInt(n) == <<"int", n>>
PyUnit(u) == <<"BarPeriod", u>>
PyTuple(elems) == <<"tuple", elems>>

\* Bar._period when it is None; a parsed period is the pair <<count, unit>>
NoPeriod == <<>>

\* an exception out of a setter: the attribute keeps the value it had
RaisedKeeping(e, msg, old) == [exc |-> e, msg |-> msg, value |-> old]

\* [0-9] in PERIOD_SPLIT_RE
Digits == <<"0", "1", "2", "3", "4", "5", "6", "7", "8", "9">>
IsDigit(c) == \E i \in 1..10 : Digits[i] = c
DigitValue(c) == (CHOOSE i \in 1..10 : Digits[i] = c) - 1

\* PERIOD_SPLIT_RE.search(text): the first run of digits, wherever it
\* starts, and what follows it on its line; <<>> when there is no digit
SplitFrom(text) ==
    CHOOSE i \in 1..Len(text) :
        IsDigit(text[i]) /\ \A j \in 1..(i - 1) : ~IsDigit(text[j])
SplitTo(text, i) ==
    CHOOSE j \in i..Len(text) :
        /\ \A k \in i..j : IsDigit(text[k])
        /\ j = Len(text) \/ ~IsDigit(text[j + 1])
LineEnd(text, j) ==
    CHOOSE m \in j..Len(text) :
        /\ \A k \in (j + 1)..m : text[k] # "\n"
        /\ m = Len(text) \/ text[m + 1] = "\n"
period_split(text) ==
    IF \A i \in 1..Len(text) : ~IsDigit(text[i]) THEN <<>>
    ELSE <<SubSeq(text, SplitFrom(text), SplitTo(text, SplitFrom(text))),
           SubSeq(text, SplitTo(text, SplitFrom(text)) + 1,
                  LineEnd(text, SplitTo(text, SplitFrom(text))))>>

RECURSIVE int_of(_)

\* int(text, base=10) of a text of digits
int_of(text) ==
    IF text = <<>> THEN 0
    ELSE 10 * int_of(SubSeq(text, 1, Len(text) - 1)) +
         DigitValue(text[Len(text)])

\* int(text, base=10) raises ValueError: for texts without sign, blank or
\* underscore, those that are empty or hold something that is no digit
int_raises(text) == text = <<>> \/ \E i \in 1..Len(text) : ~IsDigit(text[i])

\* str.lower(): the capital letters, followed by the small ones
Letters ==
    <<"A", "B", "C", "D", "E", "F", "G", "H", "I", "J", "K", "L", "M", "N",
      "O", "P", "Q", "R", "S", "T", "U", "V", "W", "X", "Y", "Z", "a", "b",
      "c", "d", "e", "f", "g", "h", "i", "j", "k", "l", "m", "n", "o", "p",
      "q", "r", "s", "t", "u", "v", "w", "x", "y", "z">>
lower_char(c) ==
    IF \E i \in 1..26 : Letters[i] = c
    THEN Letters[(CHOOSE i \in 1..26 : Letters[i] = c) + 26]
    ELSE c
lower(text) == [i \in 1..Len(text) |-> lower_char(text[i])]

\* str.strip()
IsSpace(c) == c \in {" ", "\t", "\n"}
RECURSIVE strip(_)
strip(text) ==
    IF text = <<>> THEN text
    ELSE IF IsSpace(text[1]) THEN strip(Tail(text))
    ELSE IF IsSpace(text[Len(text)])
    THEN strip(SubSeq(text, 1, Len(text) - 1))
    ELSE text

\* name.startswith(text)
startswith(name, text) ==
    Len(text) <= Len(name) /\ SubSeq(name, 1, Len(text)) = text

\* the names the setter tries, in its order, and the unit of each
PeriodNames ==
    <<<<"seconds", <<"s", "e", "c", "o", "n", "d", "s">>>>,
      <<"minutes", <<"m", "i", "n", "u", "t", "e", "s">>>>,
      <<"hours", <<"h", "o", "u", "r", "s">>>>,
      <<"hours", <<"h", "r", "s">>>>,
      <<"days", <<"d", "a", "y", "s">>>>,
      <<"weeks", <<"w", "e", "e", "k", "s">>>>,
      <<"weeks", <<"w", "k", "s">>>>,
      <<"months", <<"m", "o", "n", "t", "h", "s">>>>,
      <<"months", <<"m", "n", "t", "h", "s">>>>,
      <<"months", <<"m", "n", "s">>>>,
      <<"years", <<"y", "e", "a", "r", "s">>>>,
      <<"years", <<"y", "r", "s">>>>>>

\* the chain of the setter tried from its end: the unit of the last name
\* that starts with the text
period_unit_last(unit) ==
    IF \A i \in 1..Len(PeriodNames) : ~startswith(PeriodNames[i][2], unit)
    THEN "none"
    ELSE PeriodNames[CHOOSE i \in 1..Len(PeriodNames) :
                        /\ startswith(PeriodNames[i][2], unit)
                        /\ \A j \in (i + 1)..Len(PeriodNames) :
                               ~startswith(PeriodNames[j][2], unit)][1]

\* the if/elif chain of the setter: the unit of the first name that starts
\* with the text; "none" is the else branch
period_unit(unit) ==
    IF \A i \in 1..Len(PeriodNames) : ~startswith(PeriodNames[i][2], unit)
    THEN "none"
    ELSE PeriodNames[CHOOSE i \in 1..Len(PeriodNames) :
                        /\ startswith(PeriodNames[i][2], unit)
                        /\ \A j \in 1..(i - 1) :
                               ~startswith(PeriodNames[j][2], unit)][1]

\* the unit text of the setter: unit.lower().strip()
period_unit_text(groups) == strip(lower(groups[2]))

\* the str branch of the setter, after the search
period_set_str(old, text, groups) ==
    IF groups = <<>>
    THEN RaisedKeeping("ValueError", <<"Couldn't parse period", text>>, old)
    ELSE IF period_unit(period_unit_text(groups)) = "none"
    THEN RaisedKeeping("ValueError",
                       <<"Unknown time unit", period_unit_text(groups)>>, old)
    ELSE Returned(<<int_of(groups[1]), period_unit(period_unit_text(groups))>>)

\* parse_int(value) raises: int(None, base=10) and a str that is no number
parse_int_raises(value) ==
    CASE value[1] = "int" -> NoExc
      [] value[1] = "str" ->
            IF int_raises(value[2]) THEN "ValueError" ELSE NoExc
      [] OTHER -> "TypeError"

\* parse_int(value)
parse_int(value) == IF value[1] = "int" THEN value[2] ELSE int_of(value[2])

\* the tuple and list branch of the setter
period_set_pair(old, elems) ==
    IF Len(elems) # 2
    THEN RaisedKeeping("ValueError",
                       <<"Must have exactly 2 elements in period">>, old)
    ELSE IF elems[2][1] # "BarPeriod"
    THEN RaisedKeeping("TypeError",
            <<"Second period tuple element must be a BarPeriod value">>, old)
    ELSE IF parse_int_raises(elems[1]) # NoExc
    THEN RaisedKeeping(parse_int_raises(elems[1]), <<"int()">>, old)
    ELSE Returned(<<parse_int(elems[1]), elems[2][2]>>)

\* Bar.period, the setter: what it raises and what _period is after it
period_set(old, new_value) ==
    CASE new_value[1] = "None" -> Returned(NoPeriod)
      [] new_value[1] = "str" ->
            period_set_str(old, new_value[2], period_split(new_value[2]))
      [] new_value[1] = "tuple" -> period_set_pair(old, new_value[2])
      [] OTHER ->
            RaisedKeeping("TypeError",
                          <<"Unknown period value type", new_value[1]>>, old)

\* Bar.__init__, for the period: `self.period = None if period is '' else
\* period`; no Bar exists when the setter raises
BarPeriodInit(period) ==
    IF period = PyStr(<<>>) THEN period_set(NoPeriod, PyNone)
    ELSE period_set(NoPeriod, period)

----------------------------------------------------------------------------
(* Dispatch and the fulfillment step *)

RECURSIVE RunBalanceHandlers(_, _, _)

\* handle_balance taking the value as a deposit added to the balance
handle_balance_deposit(s, value) ==
    [s EXCEPT !.balance = @ + float(value)]

\* CsvEventSource.handle_balance
handle_balance(s, value) == [s EXCEPT !.balance = float(value)]

\* func(balance) for a balance subscriber
CallBalanceHandler(s, h, value) ==
    LET s1 == Enter(s, h, "balance", None, <<value>>)
    IN  IF h.kind = "handle_balance" THEN handle_balance(s1, value) ELSE s1

\* the loop of BaseEventSource._update_balance, over the live list
RunBalanceHandlers(s, i, value) ==
    IF s.exc # NoExc \/ i > Len(s.balance_handlers) THEN s
    ELSE RunBalanceHandlers(
            CallBalanceHandler(s, s.balance_handlers[i], value), i + 1, value)

\* BaseEventSource._update_balance
update_balance(s, value) == RunBalanceHandlers(s, 1, value)

\* _fulfill_order_out returning without a word when no position is open
fulfill_order_out_silent(s, clear) ==
    IF s.curr_order = NoneOrder THEN s
    ELSE IF balance_total_raises(s) THEN Raise(s, "TypeError")
    ELSE LET total == balance_total(s)
             s1 == IF clear
                   THEN [s EXCEPT !.curr_order = NoneOrder,
                                  !.curr_order_price = None]
                   ELSE s
         IN  update_balance(s1, total)

\* CsvEventSource._fulfill_order_out
fulfill_order_out(s, clear) ==
    IF s.curr_order = NoneOrder
    THEN PromiseReject(s, s.order_promise, <<"No open order">>)
    ELSE IF balance_total_raises(s) THEN Raise(s, "TypeError")
    ELSE LET total == balance_total(s)
             s1 == IF clear
                   THEN [s EXCEPT !.curr_order = NoneOrder,
                                  !.curr_order_price = None]
                   ELSE s
         IN  update_balance(s1, total)

\* _fulfill_order_in refusing an order that costs the whole balance
fulfill_order_in_strict(s) ==
    LET s1 == IF s.curr_order # NoneOrder /\
                 s.order.signal # s.curr_order.signal
              THEN fulfill_order_out(s, FALSE)
              ELSE s
    IN  IF s1.exc # NoExc THEN s1
        ELSE IF s1.price = None THEN Raise(s1, "TypeError")
        ELSE LET order_total == s1.price * s1.order.volume
             IN  IF order_total >= s1.balance
                 THEN PromiseReject(s1, s1.order_promise,
                                    <<"Account balance too low">>)
                 ELSE LET s2 == [s1 EXCEPT !.curr_order = s1.order,
                                           !.curr_order_price = s1.price]
                          s3 == update_balance(s2, s2.balance - order_total)
                      IN  IF s3.exc # NoExc THEN s3
                          ELSE PromiseAccept(s3, s3.order_promise, <<>>)

\* _fulfill_order_in accepting the order's notifier for the implicit close
\* of a position of the other signal as well
fulfill_order_in_settling_close(s) ==
    LET s1 == IF s.curr_order # NoneOrder /\
                 s.order.signal # s.curr_order.signal
              THEN LET c == fulfill_order_out(s, FALSE)
                   IN  IF c.exc # NoExc THEN c
                       ELSE PromiseAccept(c, c.order_promise, <<>>)
              ELSE s
    IN  IF s1.exc # NoExc THEN s1
        ELSE IF s1.order = NoneOrder THEN Raise(s1, "AttributeError")
        ELSE IF s1.price = None THEN Raise(s1, "TypeError")
        ELSE LET order_total == s1.price * s1.order.volume
             IN  IF order_total > s1.balance
                 THEN PromiseReject(s1, s1.order_promise,
                                    <<"Account balance too low">>)
                 ELSE LET s2 == [s1 EXCEPT !.curr_order = s1.order,
                                           !.curr_order_price = s1.price]
                          s3 == update_balance(s2, s2.balance - order_total)
                      IN  IF s3.exc # NoExc THEN s3
                          ELSE PromiseAccept(s3, s3.order_promise, <<>>)

\* _fulfill_order_in checking the cost before an open position of the other
\* signal is realized
fulfill_order_in_unrealized(s) ==
    IF s.price = None THEN Raise(s, "TypeError")
    ELSE LET order_total == s.price * s.order.volume
         IN  IF order_total > s.balance
             THEN PromiseReject(s, s.order_promise,
                                <<"Account balance too low">>)
             ELSE LET s1 == IF s.curr_order # NoneOrder /\
                               s.order.signal # s.curr_order.signal
                            THEN fulfill_order_out(s, FALSE)
                            ELSE s
                      s2 == [s1 EXCEPT !.curr_order = s1.order,
                                       !.curr_order_price = s1.price]
                      s3 == update_balance(s2, s2.balance - order_total)
                  IN  IF s3.exc # NoExc THEN s3
                      ELSE PromiseAccept(s3, s3.order_promise, <<>>)

\* self.order_promise.accept(), the last line of _fulfill_order_in
fulfill_order_in_accept(s) ==
    IF s.exc # NoExc THEN s ELSE PromiseAccept(s, s.order_promise, <<>>)

\* _fulfill_order_in from order_total on (lines 968-978)
fulfill_order_in_total(s) ==
    IF s.exc # NoExc THEN s
    ELSE IF s.price = None THEN Raise(s, "TypeError")
    ELSE IF s.price * s.order.volume > s.balance
    THEN PromiseReject(s, s.order_promise, <<"Account balance too low">>)
    ELSE fulfill_order_in_accept(
            update_balance([s EXCEPT !.curr_order = s.order,
                                     !.curr_order_price = s.price],
                           s.balance - s.price * s.order.volume))

\* _fulfill_order_in realizing an open position whatever its signal
fulfill_order_in_always_close(s) ==
    fulfill_order_in_total(
        IF s.curr_order # NoneOrder THEN fulfill_order_out(s, FALSE) ELSE s)

\* CsvEventSource._fulfill_order_in
fulfill_order_in(s) ==
    fulfill_order_in_total(
        IF s.curr_order # NoneOrder /\ s.order.signal # s.curr_order.signal
        THEN fulfill_order_out(s, FALSE)
        ELSE s)

\* a dispatch begins: the price its event carries, and the first promise
\* that can be created while it runs
Dispatching(s, carried) ==
    [s EXCEPT !.dispatches =
        Append(@, [carried |-> carried, first |-> Len(s.promises) + 1])]

\* the dispatch of this call during which a promise was created, 0 when it
\* was created before the call
BornIn(s, p) ==
    LET ds == {d \in 1..Len(s.dispatches) : s.dispatches[d].first <= p}
    IN  IF ds = {} THEN 0 ELSE CHOOSE d \in ds : \A e \in ds : e <= d

\* the account as one fulfillment step finds or leaves it
Account(s) ==
    [balance |-> s.balance, curr_order |-> s.curr_order,
     curr_order_price |-> s.curr_order_price, order |-> s.order,
     order_promise |-> s.order_promise, price |-> s.price]

\* a fulfillment step that found an order in s and left s1 is noted in
\* fills, with the account before and after it
Step(s, s1) ==
    [s1 EXCEPT !.fills = Append(@,
        [pre |-> Account(s), post |-> Account(s1),
         promise |-> s.order_promise,
         done |-> s1.promises[s.order_promise].done_success,
         args |-> s1.promises[s.order_promise].done_args,
         calls_from |-> Len(s.trace), calls_to |-> Len(s1.trace),
         exc |-> s1.exc,
         dispatch |-> Len(s.dispatches), born |-> BornIn(s, s.order_promise),
         born_price |-> IF BornIn(s, s.order_promise) = 0 THEN None
                        ELSE s.dispatches[BornIn(s, s.order_promise)].carried])]

\* _fulfill_order closing an open position at every price when no order is
\* queued
fulfill_order_eager_close(s) ==
    IF s.order = NoneOrder
    THEN IF s.curr_order # NoneOrder /\ s.price # None
         THEN fulfill_order_out(s, TRUE) ELSE s
    ELSE Step(s, IF s.order.signal = "out" THEN fulfill_order_out(s, TRUE)
                 ELSE fulfill_order_in(s))

\* CsvEventSource._fulfill_order
fulfill_order(s) ==
    IF s.order = NoneOrder THEN s
    ELSE Step(s, IF s.order.signal = "out" THEN fulfill_order_out(s, TRUE)
                 ELSE fulfill_order_in(s))

\* CsvEventSource.handle_tick
handle_tick(s, tick) == fulfill_order([s EXCEPT !.price = tick.price])

\* CsvEventSource.handle_bar
handle_bar(s, bar) ==
    fulfill_order([s EXCEPT !.price = IF bar.close # None THEN bar.close
                                      ELSE bar.open])

\* func(tick) for a tick subscriber
CallTickHandler(s, h, tick) ==
    LET s1 == Enter(s, h, "tick", None, IF h.hid = 0 THEN <<>> ELSE <<tick>>)
    IN  CASE h.kind = "handle_tick" -> handle_tick(s1, tick)
          [] h.kind \in SubmitKinds -> update_order(s1, SubmitOrder(h.kind))
          [] OTHER -> s1

\* func(bar) for a bar subscriber
CallBarHandler(s, h, bar) ==
    LET s1 == Enter(s, h, "bar", None, IF h.hid = 0 THEN <<>> ELSE <<bar>>)
    IN  CASE h.kind = "handle_bar" -> handle_bar(s1, bar)
          [] h.kind \in SubmitKinds -> update_order(s1, SubmitOrder(h.kind))
          [] OTHER -> s1

RECURSIVE RunTickHandlers(_, _, _)
RECURSIVE RunBarHandlers(_, _, _)
RECURSIVE RunTickHandlersReversed(_, _, _)

\* the loop of _add_tick from the last subscriber to the first, so that the
\* engine's own handler runs after the handlers of the strategy
RunTickHandlersReversed(s, i, tick) ==
    IF s.exc # NoExc \/ i > Len(s.tick_handlers) THEN s
    ELSE RunTickHandlersReversed(
            CallTickHandler(s, s.tick_handlers[Len(s.tick_handlers) - i + 1],
                            tick), i + 1, tick)

RECURSIVE RunTickHandlersOnce(_, _, _)

\* the loop of _add_tick calling a function once however often it was
\* subscribed
RunTickHandlersOnce(s, i, tick) ==
    IF s.exc # NoExc \/ i > Len(s.tick_handlers) THEN s
    ELSE RunTickHandlersOnce(
            IF \E j \in 1..(i - 1) : s.tick_handlers[j] = s.tick_handlers[i]
            THEN s
            ELSE CallTickHandler(s, s.tick_handlers[i], tick), i + 1, tick)

\* the loop of BaseEventSource._add_tick, over the live list
RunTickHandlers(s, i, tick) ==
    IF s.exc # NoExc \/ i > Len(s.tick_handlers) THEN s
    ELSE RunTickHandlers(
            CallTickHandler(s, s.tick_handlers[i], tick), i + 1, tick)

\* the loop of BaseEventSource._add_bar, over the live list
RunBarHandlers(s, i, bar) ==
    IF s.exc # NoExc \/ i > Len(s.bar_handlers) THEN s
    ELSE RunBarHandlers(
            CallBarHandler(s, s.bar_handlers[i], bar), i + 1, bar)

\* _add_tick setting the current price after the subscribers have run
add_tick_late(s, tick) ==
    LET s1 == RunTickHandlers(Dispatching(s, tick.price), 1, tick)
    IN  IF s1.exc = NoExc /\ tick.price # None
        THEN [s1 EXCEPT !.current_price = tick.price] ELSE s1

\* BaseEventSource._add_tick
add_tick(s, tick) ==
    LET s1 == IF tick.price # None
              THEN [s EXCEPT !.current_price = tick.price] ELSE s
    IN  RunTickHandlers(Dispatching(s1, tick.price), 1, tick)

\* BaseEventSource._add_bar
add_bar(s, bar) ==
    LET s1 == IF bar.close # None
              THEN [s EXCEPT !.current_price = bar.close]
              ELSE IF bar.open # None
              THEN [s EXCEPT !.current_price = bar.open]
              ELSE s
    IN  RunBarHandlers(
            Dispatching(s1, IF bar.close # None THEN bar.close ELSE bar.open),
            1, bar)

\* self._add_tick(tick) in handle_row: not reached when _add_bar raised
handle_row_tick(s, tick) == IF s.exc # NoExc THEN s ELSE add_tick(s, tick)

\* handle_row with the tick taken from the open of the bar first
handle_row_open_first(s, bar) ==
    handle_row_tick(add_bar(s, bar),
                    Tick(IF bar.open = None THEN bar.close ELSE bar.open))

\* handle_row dispatching the tick of the row before its bar
handle_row_tick_first(s, bar) ==
    IF add_tick(s, Tick(IF bar.close = None THEN bar.open
                        ELSE bar.close)).exc # NoExc
    THEN add_tick(s, Tick(IF bar.close = None THEN bar.open ELSE bar.close))
    ELSE add_bar(add_tick(s, Tick(IF bar.close = None THEN bar.open
                                  ELSE bar.close)), bar)

\* CsvEventSource.handle_row, for a row that gives the bar
handle_row(s, bar) ==
    handle_row_tick(add_bar(s, bar),
                    Tick(IF bar.close = None THEN bar.open ELSE bar.close))

\* a row as csv.reader gives it: no field for a blank line, else the texts
\* of the columns open_, high, low, close (start_ts and volume left out)
BlankRow == <<>>
CsvRow(o, h, l, c) == <<Given(o), Given(h), Given(l), Given(c)>>

\* Bar(**dict(zip(self._cols, row))) in handle_row
RowBar(row) == BarInit(row[1], row[2], row[3], row[4])

\* the bar of a row as the engine reads it: its open and its close
EngineBar(b) == Bar(b.open, b.close)

\* handle_row skipping a row that gives no Bar
handle_row_text_lenient(s, row) ==
    IF RowBar(row).exc # NoExc THEN s
    ELSE handle_row(s, EngineBar(RowBar(row).value))

\* CsvEventSource.handle_row, from the texts of the row
handle_row_text(s, row) ==
    IF RowBar(row).exc # NoExc THEN Raise(s, RowBar(row).exc)
    ELSE handle_row(s, EngineBar(RowBar(row).value))

RECURSIVE start_read(_, _)

\* CsvEventSource._start_read, over the rows of the file
start_read(s, rows) ==
    IF rows = <<>> \/ s.exc # NoExc THEN s
    ELSE start_read(IF Len(Head(rows)) = 0 THEN s
                    ELSE handle_row_text(s, Head(rows)),
                    Tail(rows))

\* the arguments of a request to /report: the type of the query string,
\* "None" when it has none, and the form, of which request.form.get(key,
\* None) gives open_, high, low, close and price (the times and the volume
\* left out)
LiveForm(o, h, l, c, p) == <<o, h, l, c, p>>

\* Bar(**{...}) and Tick(**{...}) in report
report_built(type, form) ==
    CASE type = "bar" -> BarInit(form[1], form[2], form[3], form[4])
      [] type = "tick" -> TickInit(form[5])
      [] OTHER -> Returned(<<>>)

\* report answering a type it does not know as it answers no type
report_response_lenient(s, type) ==
    IF s.exc # NoExc THEN <<>>
    ELSE IF type \in {"bar", "tick"} THEN <<"Reported", 201>>
    ELSE <<"Connected", 200>>

\* what report returns: the body and the status; nothing when it raised
report_response(s, type) ==
    IF s.exc # NoExc THEN <<>>
    ELSE IF type \in {"bar", "tick"} THEN <<"Reported", 201>>
    ELSE IF type = "None" THEN <<"Connected", 200>>
    ELSE <<"Invalid type", 400>>

\* MtEventSource.report, up to its return
report(s, type, form) ==
    IF report_built(type, form).exc # NoExc
    THEN Raise(s, report_built(type, form).exc)
    ELSE CASE type = "bar" ->
                add_bar(s, EngineBar(report_built(type, form).value))
           [] type = "tick" -> add_tick(s, report_built(type, form).value)
           [] OTHER -> s

\* on_tick putting the handler before those registered so far
on_tick_first(s, h) == [s EXCEPT !.tick_handlers = <<h>> \o @]

\* BaseEventSource.on_tick
on_tick(s, h) == [s EXCEPT !.tick_handlers = Append(@, h)]

\* BaseEventSource.on_bar
on_bar(s, h) == [s EXCEPT !.bar_handlers = Append(@, h)]

\* on_balance putting the handler before those registered so far
on_balance_first(s, h) == [s EXCEPT !.balance_handlers = <<h>> \o @]

\* BaseEventSource.on_balance
on_balance(s, h) == [s EXCEPT !.balance_handlers = Append(@, h)]

----------------------------------------------------------------------------
(* The calls a strategy and the data feed make *)

Range(f) == {f[i] : i \in DOMAIN f}

\* the bounds of the model: promises created and handlers registered
Bounded(s, maxp, maxh) ==
    /\ Len(s.promises) <= maxp
    /\ Len(s.calls) <= maxh

\* the notifier the strategy holds: the one its last update_order returned
Held == IF promises = <<>> THEN {} ELSE {Len(promises)}

\* the state a call leaves behind, with what the call was and how it ended
Committed(s, op, p) ==
    /\ tick_handlers' = s.tick_handlers
    /\ bar_handlers' = s.bar_handlers
    /\ balance_handlers' = s.balance_handlers
    /\ order' = s.order
    /\ order_promise' = s.order_promise
    /\ current_price' = s.current_price
    /\ price' = s.price
    /\ balance' = s.balance
    /\ curr_order' = s.curr_order
    /\ curr_order_price' = s.curr_order_price
    /\ promises' = s.promises
    /\ calls' = s.calls
    /\ trace' = s.trace
    /\ fills' = s.fills
    /\ last' = [op |-> op, promise |-> p, exc |-> s.exc]

\* a call that builds no value
Commit(s, op, p) ==
    /\ Committed(s, op, p)
    /\ made' = NoCall

\* CsvEventSource.__init__(path='', balance=b)
Init ==
    /\ tick_handlers = <<[hid |-> 0, kind |-> "handle_tick"]>>
    /\ bar_handlers = <<[hid |-> 0, kind |-> "handle_bar"]>>
    /\ balance_handlers = <<[hid |-> 0, kind |-> "handle_balance"]>>
    /\ order = NoneOrder
    /\ order_promise = None
    /\ current_price = None
    /\ price = None
    /\ balance \in InitBalances
    /\ curr_order = NoneOrder
    /\ curr_order_price = None
    /\ promises = <<>>
    /\ calls = <<>>
    /\ trace = <<>>
    /\ fills = <<>>
    /\ last = [op |-> "init", promise |-> None, exc |-> NoExc]
    /\ made = NoCall

\* source.update_order(o)
UpdateOrder(orders, maxp) ==
    \E o \in orders :
        LET s == update_order(State, o)
        IN  /\ Bounded(s, maxp, MaxHandlers)
            /\ Commit(s, "update_order",
                      IF s.exc = NoExc THEN s.order_promise ELSE None)

\* source._add_tick(Tick(price=p))
AddTick ==
    \E p \in Prices \cup {None} :
        LET s == add_tick(State, Tick(p))
        IN  /\ Bounded(s, MaxPromises, MaxHandlers)
            /\ Commit(s, "add_tick", None)

\* source._add_bar(Bar(open_=o, close=c))
AddBar ==
    \E bar \in Bars :
        LET s == add_bar(State, bar)
        IN  /\ Bounded(s, MaxPromises, MaxHandlers)
            /\ Commit(s, "add_bar", None)

\* source._update_balance(v)
UpdateBalance ==
    \E v \in Balances :
        LET s == update_balance(State, v)
        IN  /\ Bounded(s, MaxPromises, MaxHandlers)
            /\ Commit(s, "update_balance", None)

\* promise.then(handler) on a promise update_order returned
Then(kinds, maxh) ==
    \E p \in Held, k \in kinds :
        LET s == PromiseThen(WithHandler(State), p, NewHandler(State, k))
        IN  /\ Bounded(s, MaxPromises, maxh)
            /\ Commit(s, "then", p)

\* promise.catch(handler)
Catch(kinds, maxh) ==
    \E p \in Held, k \in kinds :
        LET s == PromiseCatch(WithHandler(State), p, NewHandler(State, k))
        IN  /\ Bounded(s, MaxPromises, maxh)
            /\ Commit(s, "catch", p)

\* promise.always(handler)
Always(kinds, maxh) ==
    \E p \in Held, k \in kinds :
        LET s == PromiseAlways(WithHandler(State), p, NewHandler(State, k))
        IN  /\ Bounded(s, MaxPromises, maxh)
            /\ Commit(s, "always", p)

\* promise.accept(*args) by the holder of the promise
Accept(payloads) ==
    \E p \in Held, a \in payloads :
        LET s == PromiseAccept(State, p, a)
        IN  /\ Bounded(s, MaxPromises, MaxHandlers)
            /\ Commit(s, "accept", p)

\* promise.reject(*args) by the holder of the promise
Reject(payloads) ==
    \E p \in Held, a \in payloads :
        LET s == PromiseReject(State, p, a)
        IN  /\ Bounded(s, MaxPromises, MaxHandlers)
            /\ Commit(s, "reject", p)

\* source.on_tick(handler)
OnTick(kinds, maxh) ==
    \E k \in kinds :
        LET s == on_tick(WithHandler(State), NewHandler(State, k))
        IN  /\ Bounded(s, MaxPromises, maxh)
            /\ Commit(s, "on_tick", None)

\* source.on_bar(handler)
OnBar(kinds, maxh) ==
    \E k \in kinds :
        LET s == on_bar(WithHandler(State), NewHandler(State, k))
        IN  /\ Bounded(s, MaxPromises, maxh)
            /\ Commit(s, "on_bar", None)

\* source.on_balance(handler)
OnBalance(kinds, maxh) ==
    \E k \in kinds :
        LET s == on_balance(WithHandler(State), NewHandler(State, k))
        IN  /\ Bounded(s, MaxPromises, maxh)
            /\ Commit(s, "on_balance", None)

\* the handlers the strategy has subscribed so far, on any list
Subscribed ==
    {h \in Range(tick_handlers) \cup Range(bar_handlers) \cup
            Range(balance_handlers) : h.hid # 0}

\* source.on_tick(handler) with a handler that is subscribed already
OnTickAgain(maxr) ==
    \E h \in Subscribed :
        LET s == on_tick(State, h)
        IN  /\ Len(s.tick_handlers) <= maxr
            /\ Commit(s, "on_tick", None)

\* source.on_bar(handler) with a handler that is subscribed already
OnBarAgain(maxr) ==
    \E h \in Subscribed :
        LET s == on_bar(State, h)
        IN  /\ Len(s.bar_handlers) <= maxr
            /\ Commit(s, "on_bar", None)

\* source.on_balance(handler) with a handler that is subscribed already
OnBalanceAgain(maxr) ==
    \E h \in Subscribed :
        LET s == on_balance(State, h)
        IN  /\ Len(s.balance_handlers) <= maxr
            /\ Commit(s, "on_balance", None)

\* a call that builds or computes a value and leaves the engine alone
Value(call, given, r) ==
    /\ made' = [exc |-> r.exc, msg |-> r.msg, value |-> r.value,
                call |-> call, given |-> given]
    /\ last' = [op |-> call, promise |-> None, exc |-> r.exc]
    /\ trace' = <<>>
    /\ fills' = <<>>
    /\ UNCHANGED <<tick_handlers, bar_handlers, balance_handlers, order,
                   order_promise, current_price, price, balance, curr_order,
                   curr_order_price, promises, calls>>

\* Order(signal=sg, volume=v)
NewOrder ==
    \E sg \in GivenSignals, v \in GivenVolumes :
        Value("Order", <<sg, v>>, OrderInit(sg, v))

\* the order that the last call made or changed
MadeOrder ==
    IF made.call \in {"Order", "Order.signal", "Order.volume"} /\
       made.exc = NoExc
    THEN {made.value} ELSE {}

\* order.signal = sg
SetSignal ==
    \E o \in MadeOrder, sg \in GivenSignals :
        Value("Order.signal", <<sg>>, OrderSetSignal(o, sg))

\* order.volume = v
SetVolume ==
    \E o \in MadeOrder, v \in GivenVolumes :
        Value("Order.volume", <<v>>, OrderSetVolume(o, v))

\* Bar(open_=o, high=h, low=l, close=c)
NewBar ==
    \E o \in Fields, h \in Fields, l \in Fields, c \in Fields :
        Value("Bar", <<o, h, l, c>>, BarInit(o, h, l, c))

\* Tick(price=p)
NewTick ==
    \E p \in Fields : Value("Tick", <<p>>, TickInit(p))

\* order_gain(signal, in_price, out_price)
OrderGain ==
    \E sg \in GivenSignals, i \in Prices, o \in Prices :
        Value("order_gain", <<sg, i, o>>,
              IF order_gain_raises(sg)
              THEN Raised("AssertionError", <<sg>>)
              ELSE Returned(order_gain(sg, i, o)))

\* order_single(signal, in_price, out_price)
OrderSingle ==
    \E sg \in GivenSignals, i \in Prices, o \in Prices :
        Value("order_single", <<sg, i, o>>,
              IF order_gain_raises(sg)
              THEN Raised("AssertionError", <<sg>>)
              ELSE Returned(order_single(sg, i, o)))

\* the period texts given: something or nothing before the digits, up to
\* MaxDigits digits, and for the unit every beginning of every name the
\* setter knows, in capitals or between blanks, or something else
PeriodLeads == {<<>>, <<" ">>, <<"x">>, <<"-">>}
PeriodCounts(n) == UNION {[1..k -> {"0", "3"}] : k \in 0..n}
PeriodUnitTexts ==
    UNION {{SubSeq(PeriodNames[i][2], 1, k) :
                k \in 0..Len(PeriodNames[i][2])} :
            i \in 1..Len(PeriodNames)} \cup
    {<<" ", "m">>, <<"M", "I", "N">>, <<"m", "n", " ">>, <<"H", "r", "s">>,
     <<"f", "a", "k", "e">>, <<"m", "x">>, <<"m", "5">>, <<"\n", "m">>}
PeriodTexts(n) ==
    {PyStr(l \o d \o u) :
        l \in PeriodLeads, d \in PeriodCounts(n), u \in PeriodUnitTexts}

\* the pre-parsed periods given, well formed or not, and the other values
PeriodPairs ==
    {PyTuple(<<c, u>>) :
        c \in {PyInt(-3), PyInt(0), PyInt(3), PyInt(30), PyStr(<<"3">>),
                PyStr(<<"0", "x", "f", "f">>), PyNone},
        u \in {PyUnit(BarPeriod[i]) : i \in 1..Len(BarPeriod)} \cup
               {PyStr(<<"s", "e", "c", "o", "n", "d">>)}} \cup
    {PyTuple(<<PyInt(1)>>),
     PyTuple(<<PyInt(1), PyUnit("seconds"), PyInt(2)>>),
     PyInt(1), PyNone}

\* the values assigned to the period of a Bar that exists
PeriodsAssigned ==
    {PyNone, PyInt(1), PyStr(<<"f", "a", "k", "e">>),
     PyStr(<<"1", "f", "a", "k", "e">>), PyStr(<<"x", "1", "m">>),
     PyStr(<<"3", "h">>), PyTuple(<<PyInt(3), PyUnit("hours")>>),
     PyTuple(<<PyInt(1)>>)}

\* Bar(period=v)
NewBarPeriod(n) ==
    \E v \in PeriodTexts(n) \cup PeriodPairs :
        Value("Bar(period)", v, BarPeriodInit(v))

\* the period of the Bar that the last call made or assigned to
MadePeriod ==
    IF made.call = "bar.period" \/
       (made.call = "Bar(period)" /\ made.exc = NoExc)
    THEN {made.value} ELSE {}

\* bar.period = v
SetPeriod ==
    \E old \in MadePeriod, v \in PeriodsAssigned :
        Value("bar.period", v, period_set(old, v))

\* the requests MetaTrader and others send: the types, with and without a
\* capital, empty and absent, and forms with prices, without, and with
\* texts that are no prices
ReportTypes == {"bar", "tick", "None", "", "Bar", "trade"}
ReportForms ==
    {LiveForm(Given("2"), Given("2"), Given("1"), Given("1"), Given("2")),
     LiveForm(Given("1"), Absent, Absent, Absent, Given("1")),
     LiveForm(Absent, Absent, Absent, Absent, Absent),
     LiveForm(Given(""), Given("1"), Given("2"), Given("2"), Given("")),
     LiveForm(Given("test"), Absent, Absent, Given("1"), Given("test"))}

\* a request to /report of the live source
Report ==
    \E type \in ReportTypes, form \in ReportForms :
        LET s == report(State, type, form)
        IN  /\ Bounded(s, MaxPromises, MaxHandlers)
            /\ Committed(s, "report", None)
            /\ made' = [exc |-> s.exc, msg |-> <<>>,
                        value |-> report_response(s, type),
                        call |-> "report", given |-> <<type, form>>]

\* source.handle_row(row), the step of the replay for one row of the file
HandleRow ==
    \E bar \in Bars :
        LET s == handle_row(State, bar)
        IN  /\ Bounded(s, MaxPromises, MaxHandlers)
            /\ Commit(s, "handle_row", None)

\* the rows of a feed: a blank line, a row with an open and a close, a
\* row with an open only, and a row with its high below its low
Rows ==
    {BlankRow, CsvRow("2", "", "", "1"), CsvRow("2", "", "", ""),
     CsvRow("1", "1", "2", "2")}

\* the rows of a feed with more that is wrong and no blank line: a row with
\* a text that is no number as well
MalformedRows ==
    {CsvRow("2", "", "", "1"), CsvRow("2", "", "", ""),
     CsvRow("test", "", "", "1"), CsvRow("1", "1", "2", "2")}

\* the files of at most n rows
Files(rows, n) == UNION {[1..k -> rows] : k \in 0..n}

\* source.start() on a file
Start(rows, maxr) ==
    \E file \in Files(rows, maxr) :
        LET s == start_read(State, file)
        IN  /\ Bounded(s, MaxPromises, MaxHandlers)
            /\ Committed(s, "start", None)
            /\ made' = [exc |-> s.exc, msg |-> <<>>, value |-> <<>>,
                        call |-> "start", given |-> file]

\* source.balance_total, read by the strategy
BalanceTotal ==
    LET s == IF balance_total_raises(State) THEN Raise(State, "TypeError")
             ELSE State
    IN  /\ Bounded(s, MaxPromises, MaxHandlers)
        /\ Commit(s, "balance_total", None)

Next ==
    \/ UpdateOrder(Orders, MaxPromises)
    \/ AddTick
    \/ AddBar
    \/ UpdateBalance
    \/ Then({"log"}, MaxListeners)
    \/ Catch({"log"}, MaxListeners)

\* the backtest engine with a strategy that submits orders and listens to
\* the outcome of the one it holds
Spec == Init /\ [][Next]_vars

NextSettle ==
    \/ UpdateOrder(Orders, MaxPromises)
    \/ AddTick
    \/ AddBar
    \/ UpdateBalance
    \/ Accept({<<"test">>})
    \/ Reject({<<"test">>})

\* the backtest engine with a strategy that submits orders and may settle
\* the notifier it holds itself
SpecSettle == Init /\ [][NextSettle]_vars

NextReplay ==
    \/ OnTick({"log"} \cup SubmitKinds, MaxSubscribers)
    \/ OnBar({"log"} \cup SubmitKinds, MaxSubscribers)
    \/ UpdateOrder(SubmittedOrders, MaxPromises)
    \/ AddTick
    \/ AddBar
    \/ HandleRow
    \/ UpdateBalance
    \/ BalanceTotal

\* the replay: the strategy subscribes to ticks and bars with handlers that
\* may submit an order, and the feed dispatches events or whole rows
SpecReplay == Init /\ [][NextReplay]_vars

NextRetry ==
    \/ UpdateOrder(SubmittedOrders, MaxPromises)
    \/ AddTick
    \/ AddBar
    \/ Catch({"log"} \cup SubmitKinds, MaxListeners)
    \/ Always(SubmitKinds, MaxListeners)

\* the engine with a strategy whose handlers on a notifier may react to its
\* outcome by submitting an order
SpecRetry == Init /\ [][NextRetry]_vars

NextSubscribe ==
    \/ OnTick({"log"}, MaxSubscribers)
    \/ OnBar({"log"}, MaxSubscribers)
    \/ OnBalance({"log"}, MaxSubscribers)
    \/ OnTickAgain(MaxRegistrations)
    \/ OnBarAgain(MaxRegistrations)
    \/ OnBalanceAgain(MaxRegistrations)
    \/ AddTick
    \/ AddBar
    \/ UpdateBalance

\* the dispatcher: a strategy subscribes handlers, the same one more than
\* once and to more than one kind of event, and the feed dispatches events
SpecSubscribe == Init /\ [][NextSubscribe]_vars

NextValues ==
    \/ NewOrder
    \/ SetSignal
    \/ SetVolume
    \/ NewBar
    \/ NewTick
    \/ OrderGain
    \/ OrderSingle

\* the value records and the settlement arithmetic, called with every
\* argument of a small domain
SpecValues == Init /\ [][NextValues]_vars

NextBalance ==
    \/ OnBalance({"log"}, MaxSubscribers)
    \/ UpdateOrder(Orders, MaxPromises)
    \/ AddTick

\* the account and those who watch it: a strategy subscribes a handler to
\* balance events and submits orders, which the ticks of the feed fill
SpecBalance == Init /\ [][NextBalance]_vars

\* the orders that open a position, and the rows of a feed with a price
EntryOrders == {Order(sg, v) : sg \in {"buy", "sell"}, v \in Volumes}
PricedRows == {CsvRow("1", "", "", ""), CsvRow("1", "", "", "2")}

\* source.start() on a file, with a strategy that may submit up to maxp
\* orders in all
Trade(rows, maxr, maxp) ==
    \E file \in Files(rows, maxr) :
        LET s == start_read(State, file)
        IN  /\ Bounded(s, maxp, MaxHandlers)
            /\ Committed(s, "start", None)
            /\ made' = [exc |-> s.exc, msg |-> <<>>, value |-> <<>>,
                        call |-> "start", given |-> file]

NextTrade ==
    \/ OnTick({"submit_out"}, MaxSubscribers)
    \/ OnBar({"submit_out"}, MaxSubscribers)
    \/ UpdateOrder(EntryOrders, MaxNotifiers)
    \/ Trade(PricedRows, MaxRows, MaxTrades)

\* a strategy that trades: it submits an order to buy or to sell, and out
\* of a handler of ticks or of bars an order to close, and replays a file
SpecTrade == Init /\ [][NextTrade]_vars

\* the state after MtEventSource(): a dispatcher without subscribers and
\* without an account
InitLive ==
    /\ tick_handlers = <<>>
    /\ bar_handlers = <<>>
    /\ balance_handlers = <<>>
    /\ order = NoneOrder
    /\ order_promise = None
    /\ current_price = None
    /\ price = None
    /\ balance = None
    /\ curr_order = NoneOrder
    /\ curr_order_price = None
    /\ promises = <<>>
    /\ calls = <<>>
    /\ trace = <<>>
    /\ fills = <<>>
    /\ last = [op |-> "init", promise |-> None, exc |-> NoExc]
    /\ made = NoCall

NextLive ==
    \/ OnTick({"log"}, MaxHandlers)
    \/ OnBar({"log"}, MaxHandlers)
    \/ Report

\* the live source: a strategy subscribes handlers and MetaTrader reports
\* bars and ticks over HTTP
SpecLive == InitLive /\ [][NextLive]_vars

NextPeriod ==
    \/ NewBarPeriod(MaxDigits)
    \/ SetPeriod

\* the period of a Bar, given to the constructor or assigned afterwards
SpecPeriod == Init /\ [][NextPeriod]_vars

NextStart ==
    \/ OnBar({"log"}, MaxSubscribers)
    \/ OnTick({"log"}, MaxSubscribers)
    \/ UpdateOrder({Order("buy", 2)}, MaxNotifiers)
    \/ Start(Rows, MaxRows)

\* the replay of a file: the strategy subscribes a handler to bars or to
\* ticks, submits an order, and starts the engine on a file
SpecStart == Init /\ [][NextStart]_vars

NextAbort ==
    \/ OnBar({"log"}, MaxSubscribers)
    \/ OnTick({"log"}, MaxSubscribers)
    \/ UpdateOrder({Order("buy", 2)}, MaxNotifiers)
    \/ Start(MalformedRows, MaxRows)

\* the replay of a file that may have rows of either kind that give no Bar
SpecAbort == Init /\ [][NextAbort]_vars

NextPromise ==
    \/ UpdateOrder({Order("out", None)}, MaxNotifiers)
    \/ Then(PromiseHandlerKinds, MaxHandlers)
    \/ Catch(PromiseHandlerKinds, MaxHandlers)
    \/ Always(PromiseHandlerKinds, MaxHandlers)
    \/ Accept(Payloads)
    \/ Reject(Payloads)

\* the notifiers alone: no market event arrives, the holder of a notifier
\* settles it, and handlers may register further handlers while they run
SpecPromise == Init /\ [][NextPromise]_vars

----------------------------------------------------------------------------
(* Claims *)

\* the handlers of the caller on one list of a promise
Hids(hs) == {hs[i].hid : i \in 1..Len(hs)} \ {0}

\* the calls of one handler among the calls of the last operation
CallsOf(tr, hid) == {i \in 1..Len(tr) : tr[i].hid = hid}

\* C1: update_order while an order is queued fails with OrderQueueError,
\* returns no notifier, creates none, and leaves the queued order, its
\* notifier and every promise as they were.
C1_QueuedOrderKept ==
    [][(last'.op = "update_order" /\ order_promise # None) =>
            /\ last'.exc = "OrderQueueError"
            /\ last'.promise = None
            /\ order' = order
            /\ order_promise' = order_promise
            /\ promises' = promises
            /\ trace' = <<>>]_vars

\* C1 witness: a second update_order was refused while a buy order waits
C1_Witness ==
    /\ last.op = "update_order"
    /\ last.exc = "OrderQueueError"
    /\ order.signal = "buy"
    /\ promises[order_promise].done_success = "None"

C3_SettlesOnce ==
    [][/\ \A p \in 1..Len(promises) :
            promises[p].done_success # "None" =>
                /\ promises'[p].done_success = promises[p].done_success
                /\ promises'[p].done_args = promises[p].done_args
       /\ (last'.op \in {"accept", "reject"} /\
           promises[last'.promise].done_success # "None") =>
                /\ last'.exc = "AssertionError"
                /\ trace' = <<>>
                /\ calls' = calls
                /\ promises' = promises]_vars

\* C3 witness: accept was refused on a notifier rejected earlier with a
\* payload, which has a handler
C3_Witness ==
    /\ last.op = "accept"
    /\ last.exc = "AssertionError"
    /\ promises[last.promise].done_success = "False"
    /\ promises[last.promise].done_args = <<"test">>
    /\ promises[last.promise].then_handlers # <<>>

\* the handler a registration step adds
Registered == Len(calls) + 1

\* C4: then() on an accepted notifier, and catch() on a rejected one, calls
\* the new handler first and once, with the stored payload, within the
\* registration; then() on a rejected notifier and catch() on an accepted
\* one do not call it, and no later step calls such a handler.
C4_LateRegistration ==
    [][/\ (last'.op = "then" /\
           promises[last'.promise].done_success = "True") \/
          (last'.op = "catch" /\
           promises[last'.promise].done_success = "False") =>
                /\ last'.exc = NoExc
                /\ calls'[Registered] = 1
                /\ CallsOf(trace', Registered) = {1}
                /\ trace'[1].args = promises[last'.promise].done_args
                /\ trace'[1].list = last'.op
       /\ (last'.op = "then" /\
           promises[last'.promise].done_success = "False") \/
          (last'.op = "catch" /\
           promises[last'.promise].done_success = "True") =>
                /\ last'.exc = NoExc
                /\ calls'[Registered] = 0
                /\ trace' = <<>>
       /\ \A p \in 1..Len(promises) :
            /\ promises[p].done_success = "False" =>
                \A h \in Hids(promises[p].then_handlers) :
                    calls'[h] = calls[h]
            /\ promises[p].done_success = "True" =>
                \A h \in Hids(promises[p].catch_handlers) :
                    calls'[h] = calls[h]]_vars

\* C4 witness: a success handler was registered on a notifier accepted
\* with a payload, and was called with it
C4_Witness ==
    /\ last.op = "then"
    /\ promises[last.promise].done_success = "True"
    /\ Len(trace) >= 1
    /\ trace[1].args = <<"test">>
    /\ trace[1].done = "True"

\* C5: whenever a call has returned, every success handler of an accepted
\* notifier and every failure handler of a rejected one has been called
\* once, every always handler of a settled notifier once, and no handler
\* of a pending notifier, no success handler of a rejected one and no
\* failure handler of an accepted one has been called.
C5_ExactlyOnce ==
    \A p \in 1..Len(promises) :
        LET d == promises[p].done_success
        IN  /\ \A h \in Hids(promises[p].then_handlers) :
                    calls[h] = IF d = "True" THEN 1 ELSE 0
            /\ \A h \in Hids(promises[p].catch_handlers) :
                    calls[h] = IF d = "False" THEN 1 ELSE 0
            /\ \A h \in Hids(promises[p].always_handlers) :
                    calls[h] = IF d = "None" THEN 0 ELSE 1

\* C5 witness: a settlement ran a success handler that registered another
\* handler while the settlement was running, beside an earlier one
C5_Witness ==
    /\ last.op = "accept"
    /\ last.exc = NoExc
    /\ \E i \in 1..Len(trace) :
            /\ trace[i].kind \in {"then", "always"}
            /\ trace[i].list = "then"
    /\ Len(promises[last.promise].then_handlers) +
       Len(promises[last.promise].always_handlers) >= 3

\* settle(signal, entryPrice, exitPrice) of the specification's settlement
\* calculator: the entry price plus the gain
Settle(signal, entry, exit) ==
    entry + (IF signal = "buy" THEN exit - entry ELSE entry - exit)

\* the fulfillment steps of the last call
Fills == {fills[i] : i \in 1..Len(fills)}

\* a step that found an out order, a position open and a price
OutOnOpen(f) ==
    /\ f.pre.order.signal = "out"
    /\ f.pre.curr_order # NoneOrder
    /\ f.pre.price # None

\* a step that found an out order and no position
OutOnFlat(f) ==
    /\ f.pre.order.signal = "out"
    /\ f.pre.curr_order = NoneOrder

\* a step that found a buy or sell order and a price
InOrder(f) ==
    /\ f.pre.order.signal \in {"buy", "sell"}
    /\ f.pre.price # None

\* a step that found a position of the other signal than the order's
Flip(f) ==
    /\ f.pre.curr_order # NoneOrder
    /\ f.pre.curr_order.signal # f.pre.order.signal

\* what the open position of a step is worth at the step's price
Realized(f) ==
    f.pre.curr_order.volume *
        Settle(f.pre.curr_order.signal, f.pre.curr_order_price, f.pre.price)

Cost(f) == f.pre.price * f.pre.order.volume

\* the handlers a step called on one list of the order's notifier
StepCalls(f, list) ==
    {trace[j].hid : j \in {k \in (f.calls_from + 1)..f.calls_to :
                                trace[k].list = list}}

\* the step left the slot empty
SlotCleared(f) == f.post.order = NoneOrder /\ f.post.order_promise = None

\* C6: a fulfillment step on an out order with a position open sets the
\* balance to balance + volume x settle(signal, entryPrice, currentPrice)
\* and clears the position.
C6_OutRealizesPosition ==
    \A f \in Fills :
        OutOnOpen(f) =>
            /\ f.exc = NoExc
            /\ f.post.balance = f.pre.balance + Realized(f)
            /\ f.post.curr_order = NoneOrder
            /\ f.post.curr_order_price = None

\* C6 witness: a sell position entered at 2 was closed at 1
C6_Witness ==
    \E f \in Fills :
        /\ OutOnOpen(f)
        /\ f.pre.curr_order.signal = "sell"
        /\ f.pre.curr_order_price = 2
        /\ f.pre.price = 1
        /\ balance = f.pre.balance + 3 * f.pre.curr_order.volume
        /\ curr_order = NoneOrder

\* C7: a fulfillment step on an out order with a position open accepts the
\* order's notifier: it is accepted and not rejected, its success handlers
\* have run, and the slot is empty when the dispatch returns.
C7_OutAccepted ==
    \A f \in Fills :
        OutOnOpen(f) =>
            /\ f.done = "True"
            /\ Hids(promises[f.promise].then_handlers) = StepCalls(f, "then")
            /\ SlotCleared(f)

\* C8: a fulfillment step on an out order with no position open rejects the
\* order's notifier with "No open order", which its failure handlers
\* receive, leaves the balance and the empty position as they were, and
\* leaves the slot empty.
C8_OutRejectedWhenFlat ==
    \A f \in Fills :
        OutOnFlat(f) =>
            /\ f.exc = NoExc
            /\ f.done = "False"
            /\ f.args = <<"No open order">>
            /\ Hids(promises[f.promise].catch_handlers) = StepCalls(f, "catch")
            /\ StepCalls(f, "then") = {}
            /\ \A j \in (f.calls_from + 1)..f.calls_to :
                    trace[j].args = <<"No open order">>
            /\ f.post.balance = f.pre.balance
            /\ f.post.curr_order = NoneOrder
            /\ f.post.curr_order_price = None
            /\ SlotCleared(f)

\* C8 witness: an out order on a flat account was rejected and a failure
\* handler heard of it
C8_Witness ==
    \E f \in Fills :
        /\ OutOnFlat(f)
        /\ f.done = "False"
        /\ StepCalls(f, "catch") # {}
        /\ order_promise = None

\* a step that rejected its order for its cost
TooLow(f) ==
    /\ InOrder(f)
    /\ f.done = "False"
    /\ f.args = <<"Account balance too low">>

\* C9: a fulfillment step that rejects a buy or sell order with "Account
\* balance too low" leaves the balance and the open position as they were
\* before the step, and leaves the slot empty.
C9_RejectionKeepsAccount ==
    \A f \in Fills :
        TooLow(f) =>
            /\ f.post.balance = f.pre.balance
            /\ f.post.curr_order = f.pre.curr_order
            /\ f.post.curr_order_price = f.pre.curr_order_price
            /\ SlotCleared(f)

\* the result C10 states: the order is filled at the price of the step
Filled(f, from) ==
    /\ f.exc = NoExc
    /\ f.post.balance = from - Cost(f)
    /\ f.post.curr_order = f.pre.order
    /\ f.post.curr_order_price = f.pre.price
    /\ f.done = "True"
    /\ f.args = <<>>
    /\ Hids(promises[f.promise].then_handlers) = StepCalls(f, "then")
    /\ StepCalls(f, "catch") = {}

\* C10 as stated: a fulfillment step on a buy or sell order whose cost does
\* not exceed the balance lowers the balance by the cost, opens the
\* position (signal, currentPrice) with the order's volume and accepts the
\* notifier.
C10_FilledFromBalance ==
    \A f \in Fills :
        (InOrder(f) /\ Cost(f) <= f.pre.balance) => Filled(f, f.pre.balance)

\* the balance the cost of a buy or sell order is taken from: the balance of
\* the account, with the value of a position of the other signal added
Funds(f) == IF Flip(f) THEN f.pre.balance + Realized(f) ELSE f.pre.balance

\* C10 amended: a fulfillment step on a buy or sell order whose cost does
\* not exceed the balance, taken after a position of the other signal has
\* been realized into it, lowers that balance by the cost, opens the
\* position (signal, currentPrice) with the order's volume and accepts the
\* notifier in the same step.
C10_FilledFromFunds ==
    \A f \in Fills :
        (InOrder(f) /\ Cost(f) <= Funds(f)) => Filled(f, Funds(f))

\* C10 witness: an order was filled for exactly the balance, with a success
\* handler listening
C10_Witness ==
    \E f \in Fills :
        /\ InOrder(f)
        /\ ~Flip(f)
        /\ Cost(f) = f.pre.balance
        /\ f.done = "True"
        /\ StepCalls(f, "then") # {}
        /\ balance = 0
        /\ curr_order = f.pre.order

\* C11: a fulfillment step on a buy or sell order that finds a position of
\* the other signal first realizes that position into the balance, checks
\* the cost of the order against the balance so updated, and, when the
\* order is affordable, opens the new position at the current price with
\* the cost debited; when it is not, the order is rejected against the
\* updated balance.
C11_FlipRealizesFirst ==
    \A f \in Fills :
        (InOrder(f) /\ Flip(f)) =>
            /\ f.exc = NoExc
            /\ IF Cost(f) <= Funds(f)
               THEN /\ f.done = "True"
                    /\ f.post.balance = Funds(f) - Cost(f)
                    /\ f.post.curr_order = f.pre.order
                    /\ f.post.curr_order_price = f.pre.price
               ELSE /\ f.done = "False"
                    /\ f.args = <<"Account balance too low">>
                    /\ f.post.balance = Funds(f)

\* C11 witness: a flip whose cost exceeded the balance of the account and
\* was paid from the balance with the old position realized into it
C11_Witness ==
    \E f \in Fills :
        /\ InOrder(f)
        /\ Flip(f)
        /\ Cost(f) > f.pre.balance
        /\ f.done = "True"
        /\ curr_order = f.pre.order
        /\ balance = Funds(f) - Cost(f)

\* C12: a fulfillment step that has a price settles the notifier of the
\* queued order, accepted or rejected, and leaves the slot empty: no order
\* stays pending across an event that carries a price.
C12_ResolvedByNextPrice ==
    \A f \in Fills :
        f.pre.price # None =>
            /\ f.exc = NoExc
            /\ f.done \in {"True", "False"}
            /\ SlotCleared(f)

\* the total equity of an account: CsvEventSource.balance_total
Equity(a) == balance_total(a)

\* C15: a fulfillment step leaves the total equity, taken at the price of
\* the step, as it was: for an out, buy or sell order, on a flat account or
\* on a position of the same or the other signal, accepted or rejected.
C15_EquityKept ==
    \A f \in Fills :
        (f.exc = NoExc /\ ~balance_total_raises(f.pre)) =>
            Equity(f.post) = Equity(f.pre)

\* the promises a step settled
Settled(before, after) ==
    {p \in 1..Len(before) : before[p].done_success = "None" /\
                            after[p].done_success # "None"}

C20_StepPriceIsCurrentPrice ==
    last.op \in {"add_tick", "add_bar"} => price = current_price

\* C13: a fulfillment step never processes an order that was submitted
\* during the dispatch the step belongs to; a notifier is settled by a step
\* of a dispatch later than the one it was created in, and when a tick or a
\* bar alone has been dispatched every notifier created meanwhile is
\* pending.
C13_NotSettledInOwnDispatch ==
    [][/\ \A i \in 1..Len(fills') : fills'[i].born < fills'[i].dispatch
       /\ \A p \in 1..Len(promises') :
            (/\ promises'[p].done_success # "None"
             /\ p <= Len(promises) => promises[p].done_success = "None") =>
                \E i \in 1..Len(fills') :
                    /\ fills'[i].promise = p
                    /\ fills'[i].born < fills'[i].dispatch
       /\ last'.op \in {"add_tick", "add_bar"} =>
            \A p \in (Len(promises) + 1)..Len(promises') :
                promises'[p].done_success = "None"]_vars

\* C13 witness: one tick dispatch settled the queued order and then called
\* a subscriber, which submitted the next order; that one is pending
C13_Witness ==
    /\ last.op = "add_tick"
    /\ last.exc = NoExc
    /\ \E f \in Fills : f.done # "None" /\ f.promise < Len(promises)
    /\ \E j \in 1..Len(trace) :
            /\ trace[j].list = "tick"
            /\ trace[j].kind \in SubmitKinds
            /\ ~trace[j].in_progress
    /\ order_promise = Len(promises)
    /\ promises[order_promise].done_success = "None"

\* a step of the row's tick dispatch on an order that a bar subscriber
\* submitted during the row's bar dispatch, the bar carrying a price
FromBarOfRow(f) ==
    /\ last.op = "handle_row"
    /\ f.born = 1
    /\ f.born_price # None

\* C14 as stated: in a replay an order submitted during the bar dispatch of
\* a row is never filled at the price carried by that bar.
C14_NotFilledAtBarPrice ==
    \A f \in Fills :
        (FromBarOfRow(f) /\ f.done = "True") =>
            f.post.curr_order_price # f.born_price

\* C14 amended: in a replay an order submitted during the bar dispatch of
\* a row is not processed by that dispatch but by the tick dispatch of the
\* same row, whose fulfillment step uses the price carried by the bar: an
\* order accepted there is filled at that price.
C14_FilledByTickOfSameRow ==
    \A f \in Fills :
        FromBarOfRow(f) =>
            /\ f.dispatch = 2
            /\ f.pre.price = f.born_price
            /\ f.done = "True" => f.post.curr_order_price = f.born_price

\* C14 witness: a row whose bar made a subscriber submit a buy order, which
\* the tick of the same row filled at the price of the bar
C14_Witness ==
    \E f \in Fills :
        /\ FromBarOfRow(f)
        /\ f.dispatch = 2
        /\ f.done = "True"
        /\ curr_order = f.pre.order
        /\ curr_order_price = f.born_price
        /\ \E j \in 1..Len(trace) :
                trace[j].list = "bar" /\ trace[j].kind = "submit_buy"

\* C17: a fulfillment step that rejects the order's notifier ends without
\* an exception and so does the dispatch, whatever the failure handlers do,
\* a new update_order included.
C17_RejectionNeverRaises ==
    \A f \in Fills :
        f.done = "False" => (f.exc = NoExc /\ last.exc = NoExc)

\* the account: the balance and the open position
Ledger == <<balance, curr_order, curr_order_price>>

\* C18: the balance and the open position change only in a balance update
\* or in a call with a fulfillment step that found a queued order:
\* subscribing, update_order and reading balance_total leave them as they
\* were, and so does a tick or bar dispatched while no order is queued.
C18_AccountFrame ==
    [][/\ Ledger' # Ledger =>
            \/ last'.op = "update_balance"
            \/ /\ last'.op \in {"add_tick", "add_bar", "handle_row"}
               /\ fills' # <<>>
       /\ last'.op \in {"on_tick", "on_bar", "update_order", "balance_total"}
            => Ledger' = Ledger
       /\ (last'.op \in {"add_tick", "add_bar"} /\ order = NoneOrder) =>
            /\ fills' = <<>>
            /\ Ledger' = Ledger]_vars

\* C18 witness: a tick with a price was dispatched to the engine and to a
\* subscriber while a position was open and no order queued
C18_Witness ==
    /\ last.op = "add_tick"
    /\ last.exc = NoExc
    /\ fills = <<>>
    /\ curr_order # NoneOrder
    /\ price # None /\ price # curr_order_price
    /\ \E j \in 1..Len(trace) : trace[j].hid # 0 /\ ~trace[j].in_progress

\* the current price the dispatcher's rule gives for a tick and for a bar
TickRule(tick, prev) == IF tick.price # None THEN tick.price ELSE prev
BarRule(bar, prev) ==
    IF bar.close # None THEN bar.close
    ELSE IF bar.open # None THEN bar.open ELSE prev

\* C19: when a tick or a bar is dispatched, every handler called during the
\* dispatch, the engine's own included, finds the current price the rule
\* gives for the event, and the dispatch leaves that price behind.
C19_PriceSetBeforeSubscribers ==
    [][\A j \in 1..Len(trace') :
        (last'.op \in {"add_tick", "add_bar"} /\ trace'[j].args # <<>> /\
         trace'[j].list \in {"tick", "bar"}) =>
            LET expected ==
                    IF last'.op = "add_tick"
                    THEN TickRule(trace'[j].args[1], current_price)
                    ELSE BarRule(trace'[j].args[1], current_price)
            IN  /\ current_price' = expected
                /\ \A k \in 1..Len(trace') :
                        trace'[k].current_price = expected]_vars

\* C19 witness: a bar without a close was dispatched to a subscriber, which
\* found its open as the current price
C19_Witness ==
    /\ last.op = "add_bar"
    /\ \E j \in 1..Len(trace) :
            /\ trace[j].list = "bar"
            /\ trace[j].args = <<Bar(2, None)>>
            /\ trace[j].current_price = 2
    /\ current_price = 2

\* the subscriber list a dispatch goes through
DispatchOps == {"add_tick", "add_bar", "update_balance"}
DispatchList(op) ==
    CASE op = "add_tick" -> "tick"
      [] op = "add_bar" -> "bar"
      [] op = "update_balance" -> "balance"
Subscribers(op) ==
    CASE op = "add_tick" -> tick_handlers
      [] op = "add_bar" -> bar_handlers
      [] op = "update_balance" -> balance_handlers

\* C21: when a dispatch (tick, bar, balance) has returned, the handlers it
\* invoked are the entries of the subscriber list of its kind, one call for
\* each entry and in the order of the list (a function subscribed twice is
\* called twice), every function of the strategy with the same event, and
\* no subscriber of another kind was called.
C21_EverySubscriberInOrder ==
    (last.op \in DispatchOps /\ last.exc = NoExc) =>
        /\ Len(trace) = Len(Subscribers(last.op))
        /\ \A i \in 1..Len(trace) :
                /\ trace[i].list = DispatchList(last.op)
                /\ trace[i].hid = Subscribers(last.op)[i].hid
                /\ trace[i].kind = Subscribers(last.op)[i].kind
                /\ trace[i].hid # 0 => Len(trace[i].args) = 1
        /\ \A i, j \in 1..Len(trace) :
                (trace[i].hid # 0 /\ trace[j].hid # 0) =>
                    trace[i].args = trace[j].args

\* C21 witness: a tick was dispatched to a function subscribed twice to
\* ticks and also to bars; it was called twice, after the engine's handler
C21_Witness ==
    /\ last.op = "add_tick"
    /\ last.exc = NoExc
    /\ Len(tick_handlers) = 3
    /\ tick_handlers[2] = tick_handlers[3]
    /\ tick_handlers[2] \in Range(bar_handlers)
    /\ Len(trace) = 3
    /\ trace[2].hid = trace[3].hid
    /\ trace[3].args = <<Tick(2)>>

\* the calls of a settlement to the handlers that were registered before it
\* began (a handler registered while it runs has a later number)
CallsToRegistered == SelectSeq(trace', LAMBDA e : e.hid <= Len(calls))

\* accept or reject on a pending notifier is the step being taken
Settling ==
    /\ last'.op \in {"accept", "reject"}
    /\ promises[last'.promise].done_success = "None"

\* the handlers a settlement is due to call, from the lists as they are
\* when it begins
Due ==
    (IF last'.op = "accept"
     THEN Tagged(promises[last'.promise].then_handlers, "then")
     ELSE Tagged(promises[last'.promise].catch_handlers, "catch")) \o
    Tagged(promises[last'.promise].always_handlers, "always")

\* C22 as stated: the handlers of the strategy that a settlement calls are
\* called in the order in which they were registered, whichever list each
\* is on.
C22_InOrderOfRegistration ==
    [][Settling =>
        \A i, j \in 1..Len(CallsToRegistered) :
            (i < j /\ CallsToRegistered[i].hid # 0 /\
             CallsToRegistered[j].hid # 0) =>
                CallsToRegistered[i].hid < CallsToRegistered[j].hid]_vars

\* C22 amended: accept calls every registered then handler in the order of
\* the then list and after them every always handler in the order of the
\* always list, each once and with the payload given; reject does so with
\* the catch list and the always list.
C22_ListByList ==
    [][Settling =>
        /\ last'.exc = NoExc
        /\ Len(CallsToRegistered) = Len(Due)
        /\ \A i \in 1..Len(Due) :
                /\ CallsToRegistered[i].hid = Due[i].h.hid
                /\ CallsToRegistered[i].kind = Due[i].h.kind
                /\ CallsToRegistered[i].list = Due[i].list
                /\ CallsToRegistered[i].promise = last'.promise
                /\ CallsToRegistered[i].args =
                        promises'[last'.promise].done_args]_vars

\* C22 witness: a notifier with an always handler registered before a then
\* handler was accepted with a payload; the then handler was called first
C22_Witness ==
    /\ last.op = "accept"
    /\ last.exc = NoExc
    /\ promises[last.promise].done_args = <<"test">>
    /\ Len(promises[last.promise].then_handlers) = 1
    /\ Len(promises[last.promise].always_handlers) = 2
    /\ promises[last.promise].always_handlers[2].hid <
            promises[last.promise].then_handlers[1].hid
    /\ Len(trace) >= 3
    /\ trace[1].hid = promises[last.promise].then_handlers[1].hid
    /\ trace[1].args = <<"test">>
    /\ trace[2].kind = "clear_order"

\* C23: a notifier of update_order that is settled, by the engine or by its
\* holder, is no longer in the slot and its order is no longer queued, so
\* order_in_progress is false unless a later order waits, and update_order
\* is refused only while a pending notifier is in the slot.
C23_SettledFreesSlot ==
    /\ \A p \in 1..Len(promises) :
            promises[p].done_success # "None" => order_promise # p
    /\ order_promise = None => order = NoneOrder
    /\ (last.op = "update_order" /\ last.exc = "OrderQueueError") =>
            /\ order_promise # None
            /\ promises[order_promise].done_success = "None"

\* C24: an explicit balance update calls the engine's balance handler with
\* the value given, which becomes the tracked balance; the open position,
\* the prices, the queued order and every notifier stay as they were.
C24_BalanceUpdateFrame ==
    [][last'.op = "update_balance" =>
        /\ last'.exc = NoExc
        /\ trace'[1].kind = "handle_balance"
        /\ trace'[1].args \in {<<v>> : v \in Balances}
        /\ balance' = trace'[1].args[1]
        /\ UNCHANGED <<curr_order, curr_order_price, current_price, price,
                       order, order_promise, promises>>]_vars

\* C24 witness: the balance was updated while a position is open and an
\* order is queued
C24_Witness ==
    /\ last.op = "update_balance"
    /\ balance = 1
    /\ curr_order # NoneOrder
    /\ order # NoneOrder
    /\ promises[order_promise].done_success = "None"

\* signal out exactly when the volume is absent
OutIffNoVolume(sg, v) == (sg = "out") <=> (v = None)

\* C27 as stated: every Order that exists, built or modified since, has
\* signal out exactly when its volume is absent.
C27_OutIffNoVolumeForLife ==
    \A o \in MadeOrder : OutIffNoVolume(OrderSignalOf(o), o.volume)

\* C27 amended: Order(signal, volume) returns an order exactly when the
\* signal, out when none is given, is out with no volume or buy or sell with
\* a volume, and raises ValueError otherwise; the order built has the signal
\* and the volume given, so Order() is out with no volume.
C27_OutIffNoVolumeWhenBuilt ==
    made.call = "Order" =>
        LET sg == IF made.given[1] = "None" THEN "out" ELSE made.given[1]
            v  == made.given[2]
        IN  /\ made.exc \in {NoExc, "ValueError"}
            /\ (made.exc = NoExc) <=> OutIffNoVolume(sg, v)
            /\ made.exc = NoExc =>
                    /\ OrderSignalOf(made.value) = sg
                    /\ made.value.volume = v
                    /\ OutIffNoVolume(OrderSignalOf(made.value),
                                      made.value.volume)

\* C27 witness: Order(volume=1), with the default signal, was refused
C27_Witness ==
    /\ made.call = "Order"
    /\ made.given = <<"None", 1>>
    /\ made.exc = "ValueError"

\* C28: a Bar that was constructed with both high and low present has
\* high >= low; Bar() given a high below the low raises ValueError with both
\* values in its message and returns no Bar.
C28_HighNotBelowLow ==
    made.call = "Bar" =>
        /\ (made.exc = NoExc /\ made.value.high # None /\
            made.value.low # None) =>
                float_ge(made.value.high, made.value.low)
        /\ (/\ \A i \in 1..4 : ~bar_field_raises(made.given[i])
            /\ ~bar_blank(made.given[2])
            /\ ~bar_blank(made.given[3])
            /\ float_lt(float_of(made.given[2][1]),
                        float_of(made.given[3][1]))) =>
                /\ made.exc = "ValueError"
                /\ made.msg = <<"High", made.given[2][1],
                                "is less than low", made.given[3][1]>>
                /\ made.value = <<>>

\* C29: order_gain is exit - entry for buy and entry - exit for sell, one
\* the negative of the other; order_single is entry + order_gain, which is
\* exit for buy and 2 * entry - exit for sell; for every other signal both
\* raise AssertionError and return nothing.
C29_GainAndSingle ==
    made.call \in {"order_gain", "order_single"} =>
        LET sg    == made.given[1]
            entry == made.given[2]
            exit  == made.given[3]
        IN  /\ sg \notin {"buy", "sell"} =>
                    made.exc = "AssertionError" /\ made.value = <<>>
            /\ sg \in {"buy", "sell"} => made.exc = NoExc
            /\ (made.call = "order_gain" /\ sg = "buy") =>
                    made.value = exit - entry
            /\ (made.call = "order_gain" /\ sg = "sell") =>
                    made.value = entry - exit
            /\ (made.call = "order_single" /\ sg = "buy") =>
                    made.value = exit
            /\ (made.call = "order_single" /\ sg = "sell") =>
                    made.value = 2 * entry - exit
            /\ order_gain("buy", entry, exit) =
                    0 - order_gain("sell", entry, exit)
            /\ order_single("sell", entry, exit) =
                    entry + order_gain("sell", entry, exit)

\* C29 witness: order_single of a sell entered at 1 and left at 2 gave 0
C29_Witness ==
    /\ made.call = "order_single"
    /\ made.given = <<"sell", 1, 2>>
    /\ made.exc = NoExc
    /\ made.value = 0

\* an argument with the empty text taken as absent
Blanked(f) == IF f = Given("") THEN Absent ELSE f

\* C30: Bar() and Tick() given the empty text for a number do what they do
\* when the number is not given: they return the object, and the field is
\* absent in it.
C30_EmptyTextIsAbsent ==
    /\ made.call = "Tick" =>
            /\ made.exc = TickInit(Blanked(made.given[1])).exc
            /\ made.given[1] = Given("") =>
                    made.exc = NoExc /\ made.value = Tick(None)
    /\ made.call = "Bar" =>
            /\ made.exc = BarInit(Blanked(made.given[1]),
                                  Blanked(made.given[2]),
                                  Blanked(made.given[3]),
                                  Blanked(made.given[4])).exc
            /\ (made.exc = NoExc /\ made.given[1] = Given("")) =>
                    made.value.open = None
            /\ (made.exc = NoExc /\ made.given[2] = Given("")) =>
                    made.value.high = None
            /\ (made.exc = NoExc /\ made.given[3] = Given("")) =>
                    made.value.low = None
            /\ (made.exc = NoExc /\ made.given[4] = Given("")) =>
                    made.value.close = None

\* the calls one dispatch makes: one to each entry of the subscriber list,
\* in its order, the handlers of the strategy with the event
DispatchCalls(list, hs, event) ==
    [i \in 1..Len(hs) |->
        [hid |-> hs[i].hid, kind |-> hs[i].kind, list |-> list,
         args |-> IF hs[i].hid = 0 THEN <<>> ELSE <<event>>]]

\* the calls for one row: a bar dispatch, then a tick dispatch with the
\* close of the bar if it has one and its open otherwise
RowCalls(bar) ==
    DispatchCalls("bar", bar_handlers, bar) \o
    DispatchCalls("tick", tick_handlers,
                  Tick(IF bar.close # None THEN bar.close ELSE bar.open))

RECURSIVE ReplayCalls(_)

\* the calls for a file: those of its rows in their order, none for a
\* blank row
ReplayCalls(file) ==
    IF file = <<>> THEN <<>>
    ELSE (IF Head(file) = BlankRow THEN <<>>
          ELSE RowCalls(EngineBar(RowBar(Head(file)).value))) \o
         ReplayCalls(Tail(file))

\* the calls to bar and tick subscribers that the last call made
DispatchedCalls ==
    LET tr == SelectSeq(trace, LAMBDA e : e.list \in {"bar", "tick"})
    IN  [i \in 1..Len(tr) |->
            [hid |-> tr[i].hid, kind |-> tr[i].kind, list |-> tr[i].list,
             args |-> tr[i].args]]

\* C25: a replay that returns has made, for every row that is not blank and
\* in the order of the file, one bar dispatch and then one tick dispatch
\* with the close of the bar, or its open when it has no close; each of
\* them called the engine's handler, which runs the fulfillment step, once;
\* a blank row made no call.
C25_BarThenTickPerRow ==
    (made.call = "start" /\ made.exc = NoExc) =>
        DispatchedCalls = ReplayCalls(made.given)

\* C25 witness: a file with a row and a blank line was replayed with a
\* tick subscriber and a queued order, which the bar of the row filled
C25_Witness ==
    /\ made.call = "start"
    /\ made.exc = NoExc
    /\ made.given = <<BlankRow, CsvRow("2", "", "", "1")>>
    /\ Len(tick_handlers) = 2
    /\ Len(fills) = 1
    /\ fills[1].done = "True"
    /\ \E i \in 1..Len(trace) :
            trace[i].list = "tick" /\ trace[i].args = <<Tick(1)>>

\* a row that gives no Bar
Malformed(row) == row # BlankRow /\ RowBar(row).exc # NoExc

\* the first such row of a file that has one
FirstMalformed(file) ==
    CHOOSE k \in 1..Len(file) :
        Malformed(file[k]) /\ \A j \in 1..(k - 1) : ~Malformed(file[j])

\* the engine after the rows before the first malformed one
BeforeMalformed(file) ==
    start_read(State, SubSeq(file, 1, FirstMalformed(file) - 1))

\* C26: a replay of a file with a malformed row, when the rows before it
\* went through, raises the ValueError of that row; nothing was dispatched
\* for that row or a later one, and the account, the prices, the queued
\* order and the notifiers are as the rows before it left them.
C26_MalformedRowAborts ==
    [][(/\ made'.call = "start"
        /\ \E k \in 1..Len(made'.given) : Malformed(made'.given[k])
        /\ BeforeMalformed(made'.given).exc = NoExc) =>
            /\ last'.exc = "ValueError"
            /\ trace' = BeforeMalformed(made'.given).trace
            /\ fills' = BeforeMalformed(made'.given).fills
            /\ balance' = BeforeMalformed(made'.given).balance
            /\ curr_order' = BeforeMalformed(made'.given).curr_order
            /\ curr_order_price' =
                    BeforeMalformed(made'.given).curr_order_price
            /\ order' = BeforeMalformed(made'.given).order
            /\ order_promise' = BeforeMalformed(made'.given).order_promise
            /\ promises' = BeforeMalformed(made'.given).promises
            /\ price' = BeforeMalformed(made'.given).price
            /\ current_price' = BeforeMalformed(made'.given).current_price
            /\ Len(SelectSeq(trace', LAMBDA e : e.kind = "handle_bar")) =
                    FirstMalformed(made'.given) - 1]_vars

\* C26 witness: the first row filled a buy order and the second row, with
\* a text that is no number, aborted the replay
C26_Witness ==
    /\ made.call = "start"
    /\ made.given = <<CsvRow("2", "", "", "1"), CsvRow("test", "", "", "1")>>
    /\ last.exc = "ValueError"
    /\ curr_order = Order("buy", 2)
    /\ curr_order_price = 1
    /\ balance = 1
    /\ Len(SelectSeq(trace, LAMBDA e : e.kind = "handle_tick")) = 1

\* the calls that give a Bar its period
PeriodCalls == {"Bar(period)", "bar.period"}

\* the names of a unit: its own and its abbreviations
NamesOf(u) ==
    {PeriodNames[i][2] : i \in {j \in 1..Len(PeriodNames) :
                                    PeriodNames[j][1] = u}}

\* a text that begins a name of the unit, whatever its case and the blanks
\* around it
Begins(text, u) ==
    \E name \in NamesOf(u) : startswith(name, strip(lower(text)))

\* an accepted spelling of the unit BarPeriod[i]: a text on one line that
\* begins a name of it and no name of a unit before it
Spells(text, i) ==
    /\ \A k \in 1..Len(text) : text[k] # "\n"
    /\ Begins(text, BarPeriod[i])
    /\ \A j \in 1..(i - 1) : ~Begins(text, BarPeriod[j])

\* what follows the digits that start a text
RECURSIVE AfterDigits(_)
AfterDigits(text) ==
    IF text # <<>> /\ IsDigit(text[1]) THEN AfterDigits(Tail(text)) ELSE text

\* the digits that start a text
LeadingDigits(text) == SubSeq(text, 1, Len(text) - Len(AfterDigits(text)))

\* C31: a period given as the text of a count n followed by an accepted
\* spelling of a unit u is stored as the pair (n, u), which is what the
\* pre-parsed pair (n, u) is stored as; and giving a stored period again as
\* a pair stores the same period.
C31_TextAndPairAgree ==
    made.call \in PeriodCalls =>
        /\ \A i \in 1..Len(BarPeriod) :
                (/\ made.given[1] = "str"
                 /\ LeadingDigits(made.given[2]) # <<>>
                 /\ Spells(AfterDigits(made.given[2]), i)) =>
                    /\ made.exc = NoExc
                    /\ made.value =
                        <<int_of(LeadingDigits(made.given[2])), BarPeriod[i]>>
                    /\ made.value =
                        period_set(NoPeriod,
                            PyTuple(<<PyInt(int_of(LeadingDigits(made.given[2]))),
                                      PyUnit(BarPeriod[i])>>)).value
        /\ (made.exc = NoExc /\ made.value # NoPeriod) =>
                period_set(made.value,
                           PyTuple(<<PyInt(made.value[1]),
                                     PyUnit(made.value[2])>>)) =
                    Returned(made.value)

\* C31 witness: Bar(period='30MIN') has the period (30, minutes)
C31_Witness ==
    /\ made.call = "Bar(period)"
    /\ made.given = PyStr(<<"3", "0", "M", "I", "N">>)
    /\ made.exc = NoExc
    /\ made.value = <<30, "minutes">>

\* the period a call leaves when it refuses the value: the one the Bar
\* had, and none when the Bar was being built
Before(call) == IF call = "bar.period" THEN made.value ELSE NoPeriod

\* C32: a period text that does not start with digits is refused with a
\* ValueError naming the whole text, and one whose unit text begins no
\* name of a unit with a ValueError naming the unit text; no period is
\* stored in either case.
C32_OnlyDigitsThenUnit ==
    [][(/\ made'.call \in PeriodCalls
        /\ made'.given[1] = "str"
        /\ ~(made'.call = "Bar(period)" /\ made'.given[2] = <<>>)) =>
            /\ AfterDigits(made'.given[2]) = made'.given[2] =>
                    /\ made'.exc = "ValueError"
                    /\ made'.msg = <<"Couldn't parse period", made'.given[2]>>
                    /\ made'.value = Before(made'.call)
            /\ (/\ AfterDigits(made'.given[2]) # made'.given[2]
                /\ \A i \in 1..Len(BarPeriod) :
                        ~Begins(AfterDigits(made'.given[2]), BarPeriod[i])) =>
                    /\ made'.exc = "ValueError"
                    /\ made'.msg =
                        <<"Unknown time unit",
                          strip(lower(AfterDigits(made'.given[2])))>>
                    /\ made'.value = Before(made'.call)]_vars

\* the calls to subscribers that the step made, of all three lists
CallsMade ==
    [i \in 1..Len(trace) |->
        [hid |-> trace[i].hid, kind |-> trace[i].kind,
         list |-> trace[i].list, args |-> trace[i].args]]

\* the Bar or Tick that the fields of a request give
Reported == report_built(made.given[1], made.given[2])

\* the engine's view of a dispatcher that a request leaves as it is
Untouched ==
    /\ UNCHANGED <<tick_handlers, bar_handlers, balance_handlers, order,
                   order_promise, current_price, price, balance, curr_order,
                   curr_order_price, promises, calls>>
    /\ trace' = <<>>

\* C33: a request of type bar whose fields give a Bar is answered 201
\* after one bar dispatch: the current price is set from the bar and each
\* bar subscriber, and no other, is called once with it; likewise for type
\* tick and the tick subscribers; a request without a type is answered
\* 200 and a request of any other type 400, and neither dispatches or
\* changes anything.
C33_OneOutcomePerRequest ==
    [][made'.call = "report" =>
        /\ (made'.given[1] = "bar" /\ Reported'.exc = NoExc) =>
            /\ made'.exc = NoExc
            /\ made'.value = <<"Reported", 201>>
            /\ CallsMade' =
                DispatchCalls("bar", bar_handlers,
                              EngineBar(Reported'.value))
            /\ current_price' =
                IF Reported'.value.close # None THEN Reported'.value.close
                ELSE IF Reported'.value.open # None
                THEN Reported'.value.open
                ELSE current_price
            /\ UNCHANGED <<tick_handlers, bar_handlers, balance_handlers>>
        /\ (made'.given[1] = "tick" /\ Reported'.exc = NoExc) =>
            /\ made'.exc = NoExc
            /\ made'.value = <<"Reported", 201>>
            /\ CallsMade' =
                DispatchCalls("tick", tick_handlers, Reported'.value)
            /\ current_price' =
                IF Reported'.value.price # None THEN Reported'.value.price
                ELSE current_price
            /\ UNCHANGED <<tick_handlers, bar_handlers, balance_handlers>>
        /\ made'.given[1] = "None" =>
            /\ made'.exc = NoExc
            /\ made'.value = <<"Connected", 200>>
            /\ Untouched
        /\ made'.given[1] \notin {"bar", "tick", "None"} =>
            /\ made'.exc = NoExc
            /\ made'.value = <<"Invalid type", 400>>
            /\ Untouched]_vars

\* C33 witness: a bar with a close was reported to a source with a bar
\* subscriber and a tick subscriber; the bar subscriber alone was called
C33_Witness ==
    /\ made.call = "report"
    /\ made.given[1] = "bar"
    /\ made.value = <<"Reported", 201>>
    /\ Len(bar_handlers) = 1
    /\ Len(tick_handlers) = 1
    /\ Len(trace) = 1
    /\ trace[1].list = "bar"
    /\ trace[1].args = <<Bar(2, 1)>>
    /\ current_price = 1

\* the list of the settling notifier that a call names, as it is when the
\* settlement begins
ListNamed(list) ==
    CASE list = "then" -> promises[last'.promise].then_handlers
      [] list = "catch" -> promises[last'.promise].catch_handlers
      [] list = "always" -> promises[last'.promise].always_handlers

\* the place of a handler on a list
PlaceOn(hs, hid) == CHOOSE k \in 1..Len(hs) : hs[k].hid = hid

\* C34: of the calls that accept or reject makes to the handlers registered
\* before it, none to an always handler comes before one to a then or a
\* catch handler, whenever each was registered; two calls to handlers of
\* one list come in the order of the list; accept calls no catch handler
\* and reject no then handler.
C34_OutcomeHandlersBeforeAlways ==
    [][Settling =>
        /\ \A i \in 1..Len(CallsToRegistered) :
                CallsToRegistered[i].list \in
                    {IF last'.op = "accept" THEN "then" ELSE "catch",
                     "always"}
        /\ \A i, j \in 1..Len(CallsToRegistered) :
                i < j =>
                    /\ ~(/\ CallsToRegistered[i].list = "always"
                         /\ CallsToRegistered[j].list # "always")
                    /\ CallsToRegistered[i].list =
                       CallsToRegistered[j].list =>
                            PlaceOn(ListNamed(CallsToRegistered[i].list),
                                    CallsToRegistered[i].hid) <
                            PlaceOn(ListNamed(CallsToRegistered[j].list),
                                    CallsToRegistered[j].hid)]_vars

\* C34 witness: a notifier with an always handler registered before a
\* catch handler was rejected; the catch handler was called first, then
\* the handler that clears the slot and after it the always handler, as
\* they are on the always list
C34_Witness ==
    /\ last.op = "reject"
    /\ last.exc = NoExc
    /\ Len(promises[last.promise].catch_handlers) = 1
    /\ Len(promises[last.promise].always_handlers) = 2
    /\ promises[last.promise].always_handlers[2].hid <
            promises[last.promise].catch_handlers[1].hid
    /\ Len(trace) >= 3
    /\ trace[1].hid = promises[last.promise].catch_handlers[1].hid
    /\ trace[2].kind = "clear_order"
    /\ trace[3].hid = promises[last.promise].always_handlers[2].hid

\* the engine as it is, with no subscriber but its own
EngineAlone ==
    [State EXCEPT !.tick_handlers = SubSeq(@, 1, 1),
                  !.bar_handlers = SubSeq(@, 1, 1),
                  !.balance_handlers = SubSeq(@, 1, 1)]

\* the account after the fulfillment step of the event that a subscriber
\* was called with
AfterStepOf(e) ==
    IF e.list = "tick" THEN add_tick(EngineAlone, e.args[1])
    ELSE add_bar(EngineAlone, e.args[1])

\* C35: the first subscriber of ticks, of bars and of balance events is
\* the engine's handler; in the dispatch of a tick or a bar, a subscriber
\* of the strategy is called after the engine's handler and finds the
\* balance and the open position as the fulfillment step of that event
\* leaves them.
C35_EngineFirst ==
    [][/\ tick_handlers'[1] = [hid |-> 0, kind |-> "handle_tick"]
       /\ bar_handlers'[1] = [hid |-> 0, kind |-> "handle_bar"]
       /\ balance_handlers'[1] = [hid |-> 0, kind |-> "handle_balance"]
       /\ last'.op \in {"add_tick", "add_bar"} =>
            \A i \in 1..Len(trace') :
                (trace'[i].hid # 0 /\ trace'[i].list \in {"tick", "bar"}) =>
                    /\ \E j \in 1..(i - 1) :
                            /\ trace'[j].hid = 0
                            /\ trace'[j].list = trace'[i].list
                    /\ trace'[i].balance = AfterStepOf(trace'[i]).balance
                    /\ trace'[i].curr_order =
                            AfterStepOf(trace'[i]).curr_order
                    /\ trace'[i].curr_order_price =
                            AfterStepOf(trace'[i]).curr_order_price]_vars

\* C35 witness: the tick that filled a buy order was dispatched to a
\* subscriber of the strategy, which found the position open and paid for
C35_Witness ==
    /\ last.op = "add_tick"
    /\ Len(fills) = 1
    /\ fills[1].done = "True"
    /\ \E i \in 1..Len(trace) :
            /\ trace[i].hid # 0
            /\ trace[i].list = "tick"
            /\ trace[i].curr_order.signal = "buy"
            /\ trace[i].curr_order_price = price
            /\ trace[i].balance = balance
            /\ trace[i].balance < 3

\* the notifier of the queued order is settled in the step being taken, by
\* the engine or by its holder
SettlingQueued ==
    /\ order_promise # None
    /\ promises[order_promise].done_success = "None"
    /\ promises'[order_promise].done_success # "None"

\* a call of that settlement to a handler that was on one of the lists of
\* the notifier when the settlement began
OfSettlement(e) == e.promise = order_promise /\ e.hid <= Len(calls)

\* the call in which the handler of update_order clears the slot
Clearing ==
    {c \in 1..Len(trace') :
        trace'[c].kind = "clear_order" /\ trace'[c].promise = order_promise}

\* C36: when the notifier of the queued order is settled, its then and
\* catch handlers find the order still queued; the handler that clears the
\* slot is called once, after all of them and before every always handler
\* of the caller, and the notifier has left the slot when it has run, which
\* it has when no handler raised.
C36_QueuedUntilCleared ==
    [][SettlingQueued =>
        /\ \A i \in 1..Len(trace') :
                (OfSettlement(trace'[i]) /\
                 trace'[i].list \in {"then", "catch"}) =>
                    /\ trace'[i].in_progress
                    /\ \A c \in Clearing : i < c
        /\ \A i \in 1..Len(trace') :
                (/\ OfSettlement(trace'[i])
                 /\ trace'[i].list = "always"
                 /\ trace'[i].hid # 0) =>
                    \A c \in Clearing : c < i
        /\ \A c \in Clearing :
                /\ trace'[c].in_progress
                /\ c < Len(trace') => ~trace'[c + 1].in_progress
        /\ Cardinality(Clearing) <= 1
        /\ last'.exc = NoExc =>
                /\ Cardinality(Clearing) = 1
                /\ order_promise' # order_promise]_vars

\* C36 witness: a queued order's notifier with a then handler and an
\* always handler of the caller was accepted: the then handler found the
\* order queued, the always handler found the slot empty
C36_Witness ==
    /\ last.op = "accept"
    /\ Len(trace) = 3
    /\ trace[1].list = "then"
    /\ trace[1].in_progress
    /\ trace[2].kind = "clear_order"
    /\ trace[3].list = "always"
    /\ trace[3].hid # 0
    /\ ~trace[3].in_progress
    /\ order_promise = None

\* a step that found a position of the order's own signal
SameSignal(f) ==
    /\ f.pre.curr_order # NoneOrder
    /\ f.pre.curr_order.signal = f.pre.order.signal

\* the balance events of a step: the values its calls to the engine's
\* balance handler carried, in their order
BalanceEvents(f) ==
    LET tr == SelectSeq(SubSeq(trace, f.calls_from + 1, f.calls_to),
                        LAMBDA e : e.kind = "handle_balance")
    IN  [i \in 1..Len(tr) |-> tr[i].args[1]]

\* C37: a fulfillment step on a buy or sell order that finds a position
\* of the same signal and a balance that covers price x volume of the
\* order accepts the order, makes (order, price) the open position and
\* takes price x volume from the balance, in one balance event: the
\* position it found is not realized, and its volume is not kept.
C37_SameSignalReplaces ==
    \A f \in Fills :
        (InOrder(f) /\ SameSignal(f) /\ Cost(f) <= f.pre.balance) =>
            /\ f.exc = NoExc
            /\ f.done = "True"
            /\ f.post.curr_order = f.pre.order
            /\ f.post.curr_order_price = f.pre.price
            /\ f.post.balance = f.pre.balance - Cost(f)
            /\ BalanceEvents(f) = <<f.pre.balance - Cost(f)>>

\* C37 witness: a buy order of volume 2 was filled on a buy position of
\* volume 1 worth something: the position is the new order alone and the
\* balance is lower by its cost
C37_Witness ==
    \E f \in Fills :
        /\ InOrder(f)
        /\ SameSignal(f)
        /\ f.pre.order = Order("buy", 2)
        /\ f.pre.curr_order = Order("buy", 1)
        /\ Realized(f) > 0
        /\ f.done = "True"
        /\ curr_order = Order("buy", 2)
        /\ balance = f.pre.balance - Cost(f)

\* the calls of a step, in their order
CallsOfStep(f) == SubSeq(trace, f.calls_from + 1, f.calls_to)

\* the places among them where a balance event begins: the calls to the
\* engine's balance handler, the first subscriber
EventsOfStep(f) ==
    {k \in 1..Len(CallsOfStep(f)) :
        CallsOfStep(f)[k].kind = "handle_balance"}

\* C38: a fulfillment step changes the balance by balance events only:
\* the balance it leaves is the value of its last event, and the balance
\* it found when it has none; an event calls every balance subscriber, in
\* the order of the list, with its value; a subscriber of the strategy
\* finds the balance of the engine equal to that value and the order
\* queued, and no handler of the order's notifier has been called yet.
C38_BalanceChangesPublished ==
    \A f \in Fills :
        f.exc = NoExc =>
            /\ f.post.balance =
                IF BalanceEvents(f) = <<>> THEN f.pre.balance
                ELSE BalanceEvents(f)[Len(BalanceEvents(f))]
            /\ \A k \in EventsOfStep(f) :
                \A i \in 1..Len(balance_handlers) :
                    /\ k + i - 1 <= Len(CallsOfStep(f))
                    /\ CallsOfStep(f)[k + i - 1].list = "balance"
                    /\ CallsOfStep(f)[k + i - 1].hid = balance_handlers[i].hid
                    /\ CallsOfStep(f)[k + i - 1].args = CallsOfStep(f)[k].args
            /\ \A j \in 1..Len(CallsOfStep(f)) :
                (CallsOfStep(f)[j].list = "balance" /\
                 CallsOfStep(f)[j].hid # 0) =>
                    /\ CallsOfStep(f)[j].balance = CallsOfStep(f)[j].args[1]
                    /\ CallsOfStep(f)[j].in_progress
                    /\ \A i \in 1..(j - 1) :
                            CallsOfStep(f)[i].promise # f.promise

\* C38 witness: a flip was filled with a subscriber to balance events,
\* which was called twice: with the balance after the old position was
\* realized and with the balance after the new one was paid
C38_Witness ==
    \E f \in Fills :
        /\ InOrder(f)
        /\ Flip(f)
        /\ f.done = "True"
        /\ Len(balance_handlers) = 2
        /\ Len(BalanceEvents(f)) = 2
        /\ BalanceEvents(f)[1] # BalanceEvents(f)[2]
        /\ Len(CallsOfStep(f)) >= 4
        /\ CallsOfStep(f)[2].hid # 0
        /\ CallsOfStep(f)[2].balance = BalanceEvents(f)[1]
        /\ CallsOfStep(f)[4].balance = balance

\* a step that opened a position on a flat account
EntryFromFlat(f) ==
    /\ InOrder(f)
    /\ f.pre.curr_order = NoneOrder
    /\ f.done = "True"

\* two steps of one replay, the second the next after the first, that
\* make a round trip: a position opened from flat, and an out order on it
RoundTrips ==
    {i \in 1..(Len(fills) - 1) :
        EntryFromFlat(fills[i]) /\ OutOnOpen(fills[i + 1])}

\* what a round trip of volume v, in at p and out at q, adds to the balance
Gain(signal, v, p, q) == IF signal = "buy" THEN v * (q - p) ELSE v * (p - q)

\* C39: after a buy or sell order of volume v was filled at price p on a
\* flat account and the next order, an out order, was processed at price
\* q, the balance is the balance before the entry plus v x (q - p) for a
\* buy and plus v x (p - q) for a sell, which is the balance before the
\* entry when q is p, and no position is open.
C39_RoundTrip ==
    \A i \in RoundTrips :
        /\ fills[i + 1].exc = NoExc
        /\ fills[i + 1].post.balance =
                fills[i].pre.balance +
                Gain(fills[i].pre.order.signal, fills[i].pre.order.volume,
                     fills[i].pre.price, fills[i + 1].pre.price)
        /\ fills[i + 1].pre.price = fills[i].pre.price =>
                fills[i + 1].post.balance = fills[i].pre.balance
        /\ fills[i + 1].post.curr_order = NoneOrder
        /\ fills[i + 1].post.curr_order_price = None

\* C39 witness: a sell order of volume 2 was filled at 1 on a flat account
\* with a balance of 3 and closed at 2, which left a balance of 1
C39_Witness ==
    /\ made.call = "start"
    /\ \E i \in RoundTrips :
            /\ fills[i].pre.order = Order("sell", 2)
            /\ fills[i].pre.price = 1
            /\ fills[i].pre.balance = 3
            /\ fills[i + 1].pre.price = 2
            /\ fills[i + 1].post.balance = 1
            /\ fills[i + 1].post.curr_order = NoneOrder

====
